---- MODULE Spec2Model ----
(***************************************************************************)
(* Plan validation and atomic transaction engine of the AI-assisted IDE    *)
(* backend: the path policy guard and the filesystem adapter               *)
(* (backend/src/services/fs-adapter.ts), the transaction service           *)
(* (backend/src/services/txn.ts) and the planner service (PlannerService,  *)
(* held in backend/src/tests/setup.ts).                                    *)
(*                                                                         *)
(* Strings are sequences of one-character strings, so that startsWith,     *)
(* includes, split and join are computed as JavaScript computes them.      *)
(***************************************************************************)
EXTENDS Integers, Sequences, FiniteSets, TLC

VARIABLES
    \* ---- path policy guard, one call of isPathAllowed
    pathPc, pathArg, pathResult,
    \* ---- transaction engine, one call of executeTransaction
    pc, fs, fs0, changes, changes0, options, idx, journal, backups,
    appliedFiles, errors, outcome, thrown, touched, progressLog,
    \* ---- planner service, one call of validatePlan
    planPc, plan, planFs, planResult,
    \* ---- concurrent writeFile calls on one path and a reader of it
    names, inodes, writers, observed,
    \* ---- event emitter, calls of addConnection, on and emit
    connections, readyState, sendThrows, listeners, lastEmit, emits,
    \* ---- build manager, calls of triggerBuild and cancelBuild, timers and child processes
    buildQueue, isBuilding, currentBuild, buildTimeout, retryTimers, procs, buildHistory, triggered,
    \* ---- file routes, one request to /files/content, /files/metadata or /files/save
    filesPc, request, store, store0, reply, moduleSystem,
    \* ---- plan store and apply route, calls of storePlan, getPlan, getAllPlans, deletePlan and POST /plan/:planId/apply
    activePlans, latest, storeOp,
    \* ---- insertAtLine, one call on a file
    insPc, insFile, insLine, insText, insOut,
    \* ---- plan route and apply route for one generated plan
    gatePc, gatePlan, gateFs, gateValidation, gateStored, gateHanded,
    \* ---- two concurrent POST /files/save requests on one file
    racePc, raceFile, raceFile0, raceRequests, raceReply, raceSystem

pathVars == <<pathPc, pathArg, pathResult>>
txnVars == <<pc, fs, fs0, changes, changes0, options, idx, journal, backups,
             appliedFiles, errors, outcome, thrown, touched,
            progressLog>>
planVars == <<planPc, plan, planFs, planResult>>
writeVars == <<names, inodes, writers, observed>>
eventVars == <<connections, readyState, sendThrows, listeners, lastEmit, emits>>
buildVars == <<buildQueue, isBuilding, currentBuild, buildTimeout, retryTimers, procs, buildHistory, triggered>>
filesVars == <<filesPc, request, store, store0, reply, moduleSystem>>
storeVars == <<activePlans, latest, storeOp>>
insertVars == <<insPc, insFile, insLine, insText, insOut>>
gateVars == <<gatePc, gatePlan, gateFs, gateValidation, gateStored, gateHanded>>
raceVars == <<racePc, raceFile, raceFile0, raceRequests, raceReply, raceSystem>>
vars == <<pathVars, txnVars, planVars, writeVars, eventVars, buildVars, filesVars, storeVars, insertVars, gateVars, raceVars>>

\* what an action of one component leaves alone
notPath == <<txnVars, planVars, writeVars, eventVars, buildVars, filesVars, storeVars, insertVars, gateVars, raceVars>>
notTxn == <<pathVars, planVars, writeVars, eventVars, buildVars, filesVars, storeVars, insertVars, gateVars, raceVars>>
notPlan == <<pathVars, txnVars, writeVars, eventVars, buildVars, filesVars, storeVars, insertVars, gateVars, raceVars>>
notWrite == <<pathVars, txnVars, planVars, eventVars, buildVars, filesVars, storeVars, insertVars, gateVars, raceVars>>
notEvent == <<pathVars, txnVars, planVars, writeVars, buildVars, filesVars, storeVars, insertVars, gateVars, raceVars>>
notBuild == <<pathVars, txnVars, planVars, writeVars, eventVars, filesVars, storeVars, insertVars, gateVars, raceVars>>
notFiles == <<pathVars, txnVars, planVars, writeVars, eventVars, buildVars, storeVars, insertVars, gateVars, raceVars>>
notStore == <<pathVars, txnVars, planVars, writeVars, eventVars, buildVars, filesVars, insertVars, gateVars, raceVars>>
notInsert == <<pathVars, txnVars, planVars, writeVars, eventVars, buildVars, filesVars, storeVars, gateVars, raceVars>>
notGate == <<pathVars, txnVars, planVars, writeVars, eventVars, buildVars, filesVars, storeVars, insertVars, raceVars>>
notRace == <<pathVars, txnVars, planVars, writeVars, eventVars, buildVars, filesVars, storeVars, insertVars, gateVars>>

(***************************************************************************)
(* Bounds of the model.                                                    *)
(***************************************************************************)
\* longest path, in segments, handed to isPathAllowed
MaxSegs == 4
\* longest change list handed to executeTransaction
MaxChanges == 2
\* most steps, and most dependency ids over all steps, of a plan whose step
\* graph is checked for cycles
MaxSteps == 3
MaxEdges == 4
\* most steps, dependency ids and changes of a plan handed to validatePlan
\* together with file changes
MaxPlanSteps == 2
MaxPlanEdges == 1
MaxPlanChanges == 1
\* longest change list of a transaction that fails with changes before and
\* after the failing one
MaxAtomicChanges == 3
\* most writeFile calls in flight on one path
MaxWriters == 2
\* most WebSocket connections, internal listeners and calls of emit
MaxSockets == 2
MaxListeners == 2
MaxEmits == 2
\* most calls of triggerBuild
MaxBuilds == 3

(***************************************************************************)
(* JavaScript string operations.                                           *)
(***************************************************************************)
\* String.prototype.startsWith
StartsWith(s, prefix) ==
    /\ Len(prefix) <= Len(s)
    /\ \A i \in 1..Len(prefix) : s[i] = prefix[i]

\* String.prototype.includes
Includes(s, sub) ==
    \E k \in 0..(Len(s) - Len(sub)) :
        \A i \in 1..Len(sub) : s[k + i] = sub[i]

\* binds a value once: With(v, LAMBDA x : e) is e with v for x
With(v, Op(_)) == Op(v)

RECURSIVE SplitFrom(_, _, _, _, _)
\* parts holds the pieces closed so far, cur the piece being read
SplitFrom(s, sep, i, cur, parts) ==
    IF i > Len(s) THEN Append(parts, cur)
    ELSE SplitFrom(s, sep, i + 1,
                   IF s[i] = sep THEN <<>> ELSE Append(cur, s[i]),
                   IF s[i] = sep THEN Append(parts, cur) ELSE parts)

\* String.prototype.split with a one-character separator
Split(s, sep) == SplitFrom(s, sep, 1, <<>>, <<>>)

RECURSIVE JoinFrom(_, _, _, _)
JoinFrom(parts, sep, i, acc) ==
    IF i > Len(parts) THEN acc
    ELSE JoinFrom(parts, sep, i + 1,
                  IF i = 1 THEN parts[1] ELSE acc \o <<sep>> \o parts[i])

\* Array.prototype.join
Join(parts, sep) == JoinFrom(parts, sep, 1, <<>>)

Slash == "/"
Dot == <<".">>
DotDot == <<".", ".">>

(***************************************************************************)
(* path.normalize and path.join of Node.js (POSIX), as used by the         *)
(* adapter.                                                                *)
(***************************************************************************)
RECURSIVE normalizeString(_, _, _)
\* the segment walk of path.normalize: res is the stack of kept segments
normalizeString(segs, allowAboveRoot, res) ==
    IF Len(segs) = 0 THEN res
    ELSE normalizeString(Tail(segs), allowAboveRoot,
            IF Head(segs) = <<>> \/ Head(segs) = Dot THEN res
            ELSE IF Head(segs) = DotDot
               THEN IF Len(res) > 0 /\ res[Len(res)] # DotDot
                       THEN SubSeq(res, 1, Len(res) - 1)
                    ELSE IF allowAboveRoot THEN Append(res, DotDot)
                    ELSE res
            ELSE Append(res, Head(segs)))

normalize(p) ==
    IF Len(p) = 0 THEN Dot
    ELSE With(Join(normalizeString(Split(p, Slash), p[1] # Slash, <<>>), Slash),
              LAMBDA body :
                 IF Len(body) = 0
                    THEN IF p[1] = Slash THEN <<Slash>>
                         ELSE IF p[Len(p)] = Slash THEN <<".", Slash>>
                         ELSE Dot
                    ELSE (IF p[1] = Slash THEN <<Slash>> ELSE <<>>)
                            \o body
                            \o (IF p[Len(p)] = Slash THEN <<Slash>> ELSE <<>>))

(***************************************************************************)
(* Path policy guard.                                                      *)
(***************************************************************************)
\* the allow-list set by the adapter's constructor
allowedPaths ==
    { <<"s","r","c","/">>,
      <<"p","u","b","l","i","c","/">>,
      <<"c","o","m","p","o","n","e","n","t","s","/">>,
      <<"p","a","g","e","s","/">>,
      <<"s","t","y","l","e","s","/">>,
      <<"u","t","i","l","s","/">>,
      <<"h","o","o","k","s","/">>,
      <<"s","e","r","v","i","c","e","s","/">>,
      <<"t","y","p","e","s","/">>,
      <<"t","e","s","t","s","/">>,
      <<"_","_","t","e","s","t","s","_","_","/">>,
      <<"d","o","c","s","/">>,
      <<"R","E","A","D","M","E",".","m","d">>,
      <<"p","a","c","k","a","g","e",".","j","s","o","n">>,
      <<"t","s","c","o","n","f","i","g",".","j","s","o","n">>,
      <<"v","i","t","e",".","c","o","n","f","i","g",".","t","s">>,
      <<"t","a","i","l","w","i","n","d",".","c","o","n","f","i","g",".","j","s">>,
      <<".","e","n","v",".","e","x","a","m","p","l","e">> }

\* a plausible slip: the allow-list is matched against the raw path and only
\* a leading ".." is treated as traversal
isPathAllowedRaw(filePath) ==
    /\ ~(StartsWith(filePath, DotDot) \/ StartsWith(filePath, <<Slash>>))
    /\ \E allowedPath \in allowedPaths :
          StartsWith(filePath, allowedPath) \/ filePath = allowedPath

isPathAllowed(filePath) ==
    With(normalize(filePath), LAMBDA normalizedPath :
       /\ ~(Includes(normalizedPath, DotDot)
             \/ StartsWith(normalizedPath, <<Slash>>))
       /\ \E allowedPath \in allowedPaths :
             StartsWith(normalizedPath, allowedPath)
                \/ normalizedPath = allowedPath)

(***************************************************************************)
(* One call of the path policy guard on a path drawn from a bounded set:   *)
(* up to MaxSegs segments joined by "/" (an empty first segment makes the  *)
(* path absolute, an empty last one gives a trailing separator).           *)
(***************************************************************************)
SegSrc == <<"s","r","c">>
SegEtc == <<"e","t","c">>
SegPasswd == <<"p","a","s","s","w","d">>
SegApp == <<"A","p","p",".","t","s","x">>
SegReadme == <<"R","E","A","D","M","E",".","m","d">>
SegDots == <<"a",".",".","b">>

PathSegments ==
    { <<>>, Dot, DotDot, SegSrc, SegEtc, SegPasswd, SegApp, SegReadme, SegDots }

PathInputs ==
    { Join(segs, Slash) :
        segs \in UNION { [1..n -> PathSegments] : n \in 1..MaxSegs } }

PathInit ==
    /\ pathPc = "input"
    /\ pathArg \in PathInputs
    /\ pathResult = FALSE

PathIdle ==
    /\ pathPc = "off"
    /\ pathArg = <<>>
    /\ pathResult = FALSE

EventIdle ==
    /\ connections = {}
    /\ readyState = <<>>
    /\ sendThrows = <<>>
    /\ listeners = <<>>
    /\ lastEmit = <<>>
    /\ emits = 0

BuildIdle ==
    /\ buildQueue = <<>>
    /\ isBuilding = FALSE
    /\ currentBuild = 0
    /\ buildTimeout = FALSE
    /\ retryTimers = 0
    /\ procs = <<>>
    /\ buildHistory = <<>>
    /\ triggered = 0

FilesIdle ==
    /\ filesPc = "off"
    /\ request = <<>>
    /\ store = <<>>
    /\ store0 = <<>>
    /\ reply = <<>>
    /\ moduleSystem = <<>>

StoreIdle ==
    /\ activePlans = <<>>
    /\ latest = <<>>
    /\ storeOp = <<>>

InsertIdle ==
    /\ insPc = "off"
    /\ insFile = <<>>
    /\ insLine = 0
    /\ insText = <<>>
    /\ insOut = <<>>

GateIdle ==
    /\ gatePc = "off"
    /\ gatePlan = <<>>
    /\ gateFs = <<>>
    /\ gateValidation = <<>>
    /\ gateStored = <<>>
    /\ gateHanded = <<>>

RaceIdle ==
    /\ racePc = <<>>
    /\ raceFile = <<>>
    /\ raceFile0 = <<>>
    /\ raceRequests = <<>>
    /\ raceReply = <<>>
    /\ raceSystem = <<>>

WriteIdle ==
    /\ names = <<>>
    /\ inodes = <<>>
    /\ writers = <<>>
    /\ observed = [read |-> FALSE, content |-> <<>>]

PlanIdle ==
    /\ planPc = "off"
    /\ plan = [steps |-> <<>>, changes |-> <<>>]
    /\ planFs = <<>>
    /\ planResult = [valid |-> FALSE, errors |-> <<>>]

\* FSAdapter.isPathAllowed(pathArg)
CheckPath ==
    /\ pathPc = "input"
    /\ pathResult' = isPathAllowed(pathArg)
    /\ pathPc' = "checked"
    /\ UNCHANGED <<pathArg, notPath>>

(***************************************************************************)
(* The workspace and the changes of the transaction engine's model.        *)
(***************************************************************************)
FileA == <<"s","r","c","/","a">>
FileB == <<"s","r","c","/","b">>
\* a relative path outside the allow-list
Forbidden == <<"e","t","c","/","p">>

TxnPaths == { FileA, FileB, Forbidden }

\* the absent value of an optional string field, and of the optional line
Undefined == <<"undefined">>
UndefinedLine == -1
\* JavaScript truthiness of an optional string: undefined and '' are falsy
Truthy(x) == x # Undefined /\ x # <<>>

Old == <<"o">>
New == <<"n">>
ValidDiff == <<"@","@","+">>
BadDiff == <<"x">>

NoFile == [exists |-> FALSE, content |-> <<>>]
File(c) == [exists |-> TRUE, content |-> c]

\* path.join(workspaceRoot, filePath), relative to the workspace root
Location(filePath) == normalize(filePath)

Locations == { Location(p) : p \in TxnPaths }

Change(file, op, applyMethod, diff, content, newPath, insertAtLine) ==
    [file |-> file, op |-> op, applyMethod |-> applyMethod, diff |-> diff,
     content |-> content, newPath |-> newPath, insertAtLine |-> insertAtLine]

\* the changes a plan may hold in this model
ChangePool ==
    { Change(FileA, "create", "replaceFile", Undefined, New, Undefined, UndefinedLine),
      Change(FileB, "create", "replaceFile", Undefined, Undefined, Undefined, UndefinedLine),
      Change(Forbidden, "create", "replaceFile", Undefined, New, Undefined, UndefinedLine),
      Change(FileA, "update", "replaceFile", Undefined, New, Undefined, UndefinedLine),
      Change(FileB, "update", "replaceFile", Undefined, Undefined, Undefined, UndefinedLine),
      Change(FileA, "update", "diff", ValidDiff, New, Undefined, UndefinedLine),
      Change(FileB, "update", "diff", BadDiff, New, Undefined, UndefinedLine),
      Change(FileA, "update", "diff", BadDiff, Undefined, Undefined, UndefinedLine),
      Change(FileA, "update", "insertAtLine", Undefined, New, Undefined, 1),
      Change(FileB, "create", "diff", ValidDiff, Undefined, Undefined, UndefinedLine),
      Change(FileA, "delete", "replaceFile", Undefined, Undefined, Undefined, UndefinedLine),
      Change(FileB, "delete", "replaceFile", Undefined, Undefined, Undefined, UndefinedLine),
      Change(FileA, "rename", "replaceFile", Undefined, Undefined, FileB, UndefinedLine),
      Change(FileB, "rename", "replaceFile", Undefined, Undefined, Forbidden, UndefinedLine),
      Change(FileA, "rename", "replaceFile", Undefined, Undefined, Undefined, UndefinedLine) }

ChangeLists == UNION { [1..n -> ChangePool] : n \in 0..MaxChanges }

\* ApplyPlanRequest['options']; formatOnSave only logs and is left out
OptionSets == [createBackups : BOOLEAN, dryRun : BOOLEAN]

\* the workspaces a transaction may start from
Workspaces ==
    { [l \in Locations |->
          IF l = Location(FileA) THEN a
          ELSE IF l = Location(FileB) THEN b
          ELSE File(Old)] :
        a \in { NoFile, File(Old) }, b \in { NoFile, File(Old) } }

(***************************************************************************)
(* Virtual filesystem adapter.  Every operation resolves its path through  *)
(* getAbsolutePath and reports, besides its result, the calls it made on   *)
(* the real filesystem (log): the kind of call and the path it was made    *)
(* for.                                                                    *)
(***************************************************************************)
FsCall(kind, filePath) == [kind |-> kind, path |-> filePath]

Err(msg, file) == [msg |-> msg, file |-> file]
NoError == Err("", <<>>)

\* a plausible slip: the guard is not consulted
getAbsolutePathUnguarded(filePath) ==
    [ok |-> TRUE, path |-> Location(filePath)]

\* ok = FALSE stands for the throw of 'Path not allowed'
getAbsolutePath(filePath) ==
    [ok |-> isPathAllowed(filePath), path |-> Location(filePath)]

exists(fsys, filePath) ==
    With(getAbsolutePath(filePath), LAMBDA abs :
       [result |-> abs.ok /\ fsys[abs.path].exists,
        log |-> IF abs.ok THEN { FsCall("access", filePath) } ELSE {}])

readFile(fsys, filePath) ==
    With(getAbsolutePath(filePath), LAMBDA abs :
       IF abs.ok /\ fsys[abs.path].exists
          THEN [ok |-> TRUE, content |-> fsys[abs.path].content,
                error |-> NoError,
                log |-> { FsCall("read", filePath) }]
          ELSE [ok |-> FALSE, content |-> <<>>,
                error |-> Err("Failed to read file", filePath),
                log |-> IF abs.ok THEN { FsCall("read", filePath) } ELSE {}])

\* mkdir of the parent, write of the temporary sibling, rename over the target
writeFile(fsys, filePath, content) ==
    With(getAbsolutePath(filePath), LAMBDA abs :
       IF abs.ok
          THEN [ok |-> TRUE, fs |-> [fsys EXCEPT ![abs.path] = File(content)],
                error |-> NoError,
                log |-> { FsCall("write", filePath) }]
          ELSE [ok |-> FALSE, fs |-> fsys,
                error |-> Err("Failed to write file", filePath),
                log |-> {}])

deleteFile(fsys, filePath) ==
    With(getAbsolutePath(filePath), LAMBDA abs :
       IF abs.ok /\ fsys[abs.path].exists
          THEN [ok |-> TRUE, fs |-> [fsys EXCEPT ![abs.path] = NoFile],
                error |-> NoError,
                log |-> { FsCall("unlink", filePath) }]
          ELSE [ok |-> FALSE, fs |-> fsys,
                error |-> Err("Failed to delete file", filePath),
                log |-> IF abs.ok THEN { FsCall("unlink", filePath) } ELSE {}])

renameFile(fsys, oldPath, newPath) ==
    With(<<getAbsolutePath(oldPath), getAbsolutePath(newPath)>>, LAMBDA abs :
       IF ~(abs[1].ok /\ abs[2].ok)
          THEN [ok |-> FALSE, fs |-> fsys,
                error |-> Err("Failed to rename file", oldPath), log |-> {}]
       ELSE IF ~fsys[abs[1].path].exists
          THEN [ok |-> FALSE, fs |-> fsys,
                error |-> Err("Failed to rename file", oldPath),
                log |-> { FsCall("rename", oldPath), FsCall("rename", newPath) }]
       ELSE [ok |-> TRUE,
             fs |-> IF abs[1].path = abs[2].path THEN fsys
                    ELSE [fsys EXCEPT ![abs[2].path] = fsys[abs[1].path],
                                      ![abs[1].path] = NoFile],
             error |-> NoError,
             log |-> { FsCall("rename", oldPath), FsCall("rename", newPath) }])

(***************************************************************************)
(* Transaction service: the phases of executeTransaction as operators over *)
(* the filesystem.                                                         *)
(***************************************************************************)
BackupEntry(filePath, content, existed) ==
    [path |-> filePath, content |-> content, existed |-> existed]

\* one iteration of the loop of createBackups; acc is the backup set and
\* the filesystem calls so far
backupChange(fsys, change, acc) ==
    IF change.op \in { "update", "delete" }
       THEN With(exists(fsys, change.file), LAMBDA ex :
               IF ex.result
                  THEN With(readFile(fsys, change.file), LAMBDA rd :
                          [files |-> IF rd.ok
                                        THEN Append(acc.files,
                                                BackupEntry(change.file,
                                                            rd.content, TRUE))
                                        \* a failed read is logged, the file skipped
                                        ELSE acc.files,
                           log |-> acc.log \cup ex.log \cup rd.log])
                  ELSE [files |-> Append(acc.files,
                                         BackupEntry(change.file, <<>>, FALSE)),
                        log |-> acc.log \cup ex.log])
       ELSE acc

RECURSIVE createBackupsFrom(_, _, _, _)
createBackupsFrom(fsys, chs, i, acc) ==
    IF i > Len(chs) THEN acc
    ELSE createBackupsFrom(fsys, chs, i + 1, backupChange(fsys, chs[i], acc))

\* the backup set of the changes: one entry per update or delete change
createBackups(fsys, chs) ==
    createBackupsFrom(fsys, chs, 1, [files |-> <<>>, log |-> {}])

validateDiff(diff) ==
    Includes(diff, <<"@", "@">>)
        /\ (Includes(diff, <<"+">>) \/ Includes(diff, <<"-">>))

Valid == [valid |-> TRUE, error |-> NoError]
Invalid(e) == [valid |-> FALSE, error |-> e]

\* the diff branch of an iteration of validateChanges: an invalid diff makes
\* the change fall back to replaceFile, and is an error without content
validateDiffOf(change, log) ==
    IF change.applyMethod = "diff" /\ Truthy(change.diff)
          /\ ~validateDiff(change.diff)
       THEN [result |-> IF ~Truthy(change.content)
                           THEN Invalid(Err(
                                   "Diff invalid and no fallback content provided",
                                   <<>>))
                           ELSE Valid,
             change |-> [change EXCEPT !.applyMethod = "replaceFile"],
             log |-> log]
       ELSE [result |-> Valid, change |-> change, log |-> log]

\* one iteration of validateChanges: the result, the change as the
\* iteration leaves it and the filesystem calls made
validateChange(fsys, change) ==
    IF ~isPathAllowed(change.file)
       THEN [result |-> Invalid(Err("Path not allowed", <<>>)),
             change |-> change, log |-> {}]
    ELSE IF change.op = "update"
       THEN With(readFile(fsys, change.file), LAMBDA rd :
               IF ~rd.ok
                  THEN [result |-> Invalid(rd.error), change |-> change,
                        log |-> rd.log]
                  ELSE validateDiffOf(change, rd.log))
    ELSE validateDiffOf(change, {})

RECURSIVE validateChangesFrom(_, _, _, _)
validateChangesFrom(fsys, chs, i, acc) ==
    IF i > Len(chs) THEN acc
    ELSE validateChangesFrom(fsys, chs, i + 1,
            With(validateChange(fsys, chs[i]), LAMBDA v :
               [results |-> Append(acc.results, v.result),
                changes |-> Append(acc.changes, v.change),
                log |-> acc.log \cup v.log]))

\* a plausible slip: validation stops at the first invalid change
validateChangesFirstError(fsys, chs) ==
    With(validateChangesFrom(fsys, chs, 1,
                             [results |-> <<>>, changes |-> <<>>, log |-> {}]),
         LAMBDA v :
            IF \E i \in 1..Len(v.results) : ~v.results[i].valid
               THEN With(CHOOSE i \in 1..Len(v.results) :
                            /\ ~v.results[i].valid
                            /\ \A j \in 1..(i - 1) : v.results[j].valid,
                         LAMBDA first :
                            [v EXCEPT !.results = SubSeq(v.results, 1, first)])
               ELSE v)

validateChanges(fsys, chs) ==
    validateChangesFrom(fsys, chs, 1,
                        [results |-> <<>>, changes |-> <<>>, log |-> {}])

\* Array.prototype.splice(start, 0, item)
Splice(lines, start, item) ==
    With(IF start < 0
            THEN (IF Len(lines) + start < 0 THEN 0 ELSE Len(lines) + start)
            ELSE (IF start > Len(lines) THEN Len(lines) ELSE start),
         LAMBDA at :
            SubSeq(lines, 1, at) \o <<item>> \o SubSeq(lines, at + 1, Len(lines)))

Newline == "\n"

insertAtLine(fsys, filePath, lineNumber, content) ==
    With(readFile(fsys, filePath), LAMBDA rd :
       IF ~rd.ok
          THEN [ok |-> FALSE, fs |-> fsys, error |-> rd.error, log |-> rd.log]
          ELSE With(writeFile(fsys, filePath,
                              Join(Splice(Split(rd.content, Newline),
                                          lineNumber - 1, content),
                                   Newline)),
                    LAMBDA wr : [wr EXCEPT !.log = rd.log \cup wr.log]))

Failure(fsys, msg, file) ==
    [ok |-> FALSE, fs |-> fsys, error |-> Err(msg, file), log |-> {}]

applyUpdate(fsys, change) ==
    IF change.applyMethod = "replaceFile"
       THEN IF ~Truthy(change.content)
               THEN Failure(fsys, "Content required for replaceFile method", <<>>)
               ELSE writeFile(fsys, change.file, change.content)
    ELSE IF change.applyMethod = "diff"
       THEN IF ~Truthy(change.diff)
               THEN Failure(fsys, "Diff required for diff method", <<>>)
               \* applyDiff always throws
               ELSE Failure(fsys, "Diff application not yet implemented", <<>>)
    ELSE IF change.applyMethod = "insertAtLine"
       THEN IF change.insertAtLine = UndefinedLine \/ ~Truthy(change.content)
               THEN Failure(fsys,
                       "Line number and content required for insertAtLine method",
                       <<>>)
               ELSE insertAtLine(fsys, change.file, change.insertAtLine,
                                 change.content)
    ELSE Failure(fsys, "Unknown apply method", <<>>)

applyFileChange(fsys, change) ==
    IF change.op = "create"
       THEN writeFile(fsys, change.file,
                      IF Truthy(change.content) THEN change.content ELSE <<>>)
    ELSE IF change.op = "update"
       THEN applyUpdate(fsys, change)
    ELSE IF change.op = "delete"
       THEN deleteFile(fsys, change.file)
    ELSE IF change.op = "rename"
       THEN IF ~Truthy(change.newPath)
               THEN Failure(fsys, "New path required for rename operation", <<>>)
               ELSE renameFile(fsys, change.file, change.newPath)
    ELSE Failure(fsys, "Unknown operation", <<>>)

\* a plausible slip: files that existed are not written back
restoreFileNoWrite(acc, file) ==
    IF file.existed
       THEN acc
       ELSE With(exists(acc.fs, file.path), LAMBDA ex :
               IF ex.result
                  THEN With(deleteFile(acc.fs, file.path), LAMBDA del :
                          [fs |-> del.fs,
                           log |-> acc.log \cup ex.log \cup del.log])
                  ELSE [fs |-> acc.fs, log |-> acc.log \cup ex.log])

\* one iteration of the loop of rollbackTransaction; a failed restoration
\* is logged and the loop goes on
restoreFile(acc, file) ==
    IF file.existed
       THEN With(writeFile(acc.fs, file.path, file.content), LAMBDA wr :
               [fs |-> wr.fs, log |-> acc.log \cup wr.log])
       ELSE With(exists(acc.fs, file.path), LAMBDA ex :
               IF ex.result
                  THEN With(deleteFile(acc.fs, file.path), LAMBDA del :
                          [fs |-> del.fs,
                           log |-> acc.log \cup ex.log \cup del.log])
                  ELSE [fs |-> acc.fs, log |-> acc.log \cup ex.log])

RECURSIVE restoreFilesFrom(_, _, _)
restoreFilesFrom(files, i, acc) ==
    IF i > Len(files) THEN acc
    ELSE restoreFilesFrom(files, i + 1, restoreFile(acc, files[i]))

\* the loop of rollbackTransaction over the backup set
restoreFiles(fsys, files) ==
    restoreFilesFrom(files, 1, [fs |-> fsys, log |-> {}])

(***************************************************************************)
(* executeTransaction as a state machine: one action per phase, one Apply  *)
(* step per change.  fs0 and changes0 keep the workspace and the changes   *)
(* as they were when the call began.                                       *)
(***************************************************************************)
AllFiles == <<"a", "l", "l">>

JournalOp(type, file, success) ==
    [type |-> type, file |-> file, success |-> success]

NothingThrown == [msg |-> "", causes |-> <<>>]

\* a progress value as the exact fraction num/den
Ratio(num, den) == [num |-> num, den |-> den]

\* a plausible slip: the progress of the change after the current one
progressOfNext(i, n) == Ratio((i + 1) * 100, n)

\* progress: (i / changes.length) * 100, for the 0-based index i
progressOf(i, n) == Ratio(i * 100, n)

\* the data of the apply.progress event of the loop, and the call of
\* applyFileChange that follows it
ProgressEvent(progress, file) ==
    [kind |-> "apply.progress", progress |-> progress, currentFile |-> file,
     completed |-> FALSE]

Attempt(file) ==
    [kind |-> "applyFileChange", progress |-> Ratio(0, 1), currentFile |-> file,
     completed |-> FALSE]

\* the data of the apply.progress event after the loop
CompletedEvent ==
    [kind |-> "apply.progress", progress |-> Ratio(100, 1),
     currentFile |-> <<>>, completed |-> TRUE]

TxnInit ==
    /\ pc = "idle"
    /\ fs \in Workspaces
    /\ fs0 = fs
    /\ changes = <<>>
    /\ changes0 = <<>>
    /\ options = [createBackups |-> FALSE, dryRun |-> FALSE]
    /\ idx = 0
    /\ journal = [operations |-> <<>>, status |-> "none"]
    /\ backups = [present |-> FALSE, files |-> <<>>]
    /\ appliedFiles = <<>>
    /\ errors = <<>>
    /\ outcome = "none"
    /\ thrown = NothingThrown
    /\ touched = {}
    /\ progressLog = <<>>

TxnIdle ==
    /\ pc = "off"
    /\ fs = [l \in Locations |-> NoFile]
    /\ fs0 = fs
    /\ changes = <<>>
    /\ changes0 = <<>>
    /\ options = [createBackups |-> FALSE, dryRun |-> FALSE]
    /\ idx = 0
    /\ journal = [operations |-> <<>>, status |-> "none"]
    /\ backups = [present |-> FALSE, files |-> <<>>]
    /\ appliedFiles = <<>>
    /\ errors = <<>>
    /\ outcome = "none"
    /\ thrown = NothingThrown
    /\ touched = {}
    /\ progressLog = <<>>

\* entry of executeTransaction: the journal is created pending
Begin ==
    /\ pc = "idle"
    /\ \E chs \in ChangeLists, opts \in OptionSets :
          /\ changes' = chs
          /\ changes0' = chs
          /\ options' = opts
    /\ journal' = [operations |-> <<>>, status |-> "pending"]
    /\ pc' = "backup"
    /\ UNCHANGED <<fs, fs0, idx, backups, appliedFiles, errors, outcome,
                   thrown, touched, progressLog, notTxn>>

AtomicLists == UNION { [1..n -> ChangePool] : n \in 0..MaxAtomicChanges }

\* entry of executeTransaction with createBackups and without dryRun, for
\* the longer change lists
BeginAtomic ==
    /\ pc = "idle"
    /\ \E chs \in AtomicLists :
          /\ changes' = chs
          /\ changes0' = chs
    /\ options' = [createBackups |-> TRUE, dryRun |-> FALSE]
    /\ journal' = [operations |-> <<>>, status |-> "pending"]
    /\ pc' = "backup"
    /\ UNCHANGED <<fs, fs0, idx, backups, appliedFiles, errors, outcome,
                   thrown, touched, progressLog, notTxn>>

\* phase 1: createBackups, only if options.createBackups
Backup ==
    /\ pc = "backup"
    /\ IF options.createBackups
          THEN \E b \in { createBackups(fs, changes) } :
                  /\ backups' = [present |-> TRUE, files |-> b.files]
                  /\ touched' = touched \cup b.log
          ELSE UNCHANGED <<backups, touched>>
    /\ pc' = "validate"
    /\ UNCHANGED <<fs, fs0, changes, changes0, options, idx, journal,
                   appliedFiles, errors, outcome, thrown, progressLog, notTxn>>

\* phase 2: validateChanges; any invalid result throws 'Validation failed'
Validate ==
    /\ pc = "validate"
    /\ \E v \in { validateChanges(fs, changes) } :
       \E invalid \in { SelectSeq(v.results, LAMBDA r : ~r.valid) } :
          /\ changes' = v.changes
          /\ touched' = touched \cup v.log
          /\ IF Len(invalid) > 0
                THEN /\ thrown' = [msg |-> "Validation failed",
                                   causes |-> [i \in 1..Len(invalid) |->
                                                  invalid[i].error]]
                     /\ pc' = "catch"
                     /\ UNCHANGED idx
                ELSE /\ pc' = "apply"
                     /\ idx' = 1
                     /\ UNCHANGED thrown
    /\ UNCHANGED <<fs, fs0, changes0, options, journal, backups,
                   appliedFiles, errors, outcome, progressLog, notTxn>>

\* a plausible slip: a failed change never ends the loop
rollsBackNever(opts) == FALSE

\* "If any operation fails, rollback entire transaction": if (!options.dryRun)
rollsBack(opts) == ~opts.dryRun

\* phase 3, one iteration of the loop over the changes
Apply ==
    /\ pc = "apply"
    /\ idx <= Len(changes)
    /\ \E change \in { changes[idx] } :
       \E r \in { applyFileChange(fs, change) } :
       \E errorMsg \in { [msg |-> "Failed to apply change",
                           file |-> change.file, cause |-> r.error] } :
          /\ fs' = r.fs
          /\ touched' = touched \cup r.log
          /\ IF r.ok
                THEN /\ appliedFiles' = Append(appliedFiles, change.file)
                     /\ journal' = [journal EXCEPT !.operations =
                            Append(@, JournalOp("apply", change.file, TRUE))]
                     /\ idx' = idx + 1
                     /\ pc' = "apply"
                     /\ UNCHANGED errors
                ELSE /\ errors' = Append(errors, errorMsg)
                     /\ journal' = [journal EXCEPT !.operations =
                            Append(@, JournalOp("apply", change.file, FALSE))]
                     /\ IF rollsBack(options)
                           THEN pc' = "rollback" /\ UNCHANGED idx
                           ELSE pc' = "apply" /\ idx' = idx + 1
                     /\ UNCHANGED appliedFiles
    /\ progressLog' = progressLog \o
          << ProgressEvent(progressOf(idx - 1, Len(changes)), changes[idx].file),
             Attempt(changes[idx].file) >>
    /\ UNCHANGED <<fs0, changes, changes0, options, backups, outcome, thrown,
                   notTxn>>

\* the failure branch of the loop: rollbackTransaction, journal.status =
\* 'rolled_back', throw 'Transaction failed and rolled back'; without a
\* backup set rollbackTransaction itself throws 'No backup found'
Rollback ==
    /\ pc = "rollback"
    /\ IF ~backups.present
          THEN /\ thrown' = [msg |-> "No backup found", causes |-> <<>>]
               /\ UNCHANGED <<fs, journal, touched>>
          ELSE \E r \in { restoreFiles(fs, backups.files) } :
                  /\ fs' = r.fs
                  /\ touched' = touched \cup r.log
                  /\ journal' = [operations |->
                                    Append(journal.operations,
                                           JournalOp("rollback", AllFiles, TRUE)),
                                 status |-> "rolled_back"]
                  /\ thrown' = [msg |-> "Transaction failed and rolled back",
                                causes |-> <<errors[Len(errors)]>>]
    /\ pc' = "catch"
    /\ UNCHANGED <<fs0, changes, changes0, options, idx, backups,
                   appliedFiles, errors, outcome, progressLog, notTxn>>

\* phase 4: the loop is over, the journal is completed and the result returned
Complete ==
    /\ pc = "apply"
    /\ idx > Len(changes)
    /\ journal' = [journal EXCEPT !.status = "completed"]
    /\ outcome' = "returned"
    /\ pc' = "done"
    /\ progressLog' = Append(progressLog, CompletedEvent)
    /\ UNCHANGED <<fs, fs0, changes, changes0, options, idx, backups,
                   appliedFiles, errors, thrown, touched, notTxn>>

\* the outer catch: journal.status = 'failed', the error is rethrown
Catch ==
    /\ pc = "catch"
    /\ journal' = [journal EXCEPT !.status = "failed"]
    /\ outcome' = "thrown"
    /\ pc' = "done"
    /\ UNCHANGED <<fs, fs0, changes, changes0, options, idx, backups,
                   appliedFiles, errors, thrown, touched, progressLog, notTxn>>

\* the value executeTransaction returns
result ==
    [success |-> Len(errors) = 0, appliedFiles |-> appliedFiles,
     errors |-> errors]

TxnNext ==
    \/ Begin
    \/ Backup
    \/ Validate
    \/ Apply
    \/ Rollback
    \/ Complete
    \/ Catch

\* every component but the named one is idle
IdleExcept(c) ==
    /\ IF c = "path" THEN TRUE ELSE PathIdle
    /\ IF c = "txn" THEN TRUE ELSE TxnIdle
    /\ IF c = "plan" THEN TRUE ELSE PlanIdle
    /\ IF c = "write" THEN TRUE ELSE WriteIdle
    /\ IF c = "event" THEN TRUE ELSE EventIdle
    /\ IF c = "build" THEN TRUE ELSE BuildIdle
    /\ IF c = "files" THEN TRUE ELSE FilesIdle
    /\ IF c = "store" THEN TRUE ELSE StoreIdle
    /\ IF c = "insert" THEN TRUE ELSE InsertIdle
    /\ IF c = "gate" THEN TRUE ELSE GateIdle
    /\ IF c = "race" THEN TRUE ELSE RaceIdle

Init == TxnInit /\ IdleExcept("txn")

Spec == Init /\ [][TxnNext]_vars

AtomicNext ==
    \/ BeginAtomic
    \/ Backup
    \/ Validate
    \/ Apply
    \/ Rollback
    \/ Complete
    \/ Catch

SpecAtomic == Init /\ [][AtomicNext]_vars

InitPath == PathInit /\ IdleExcept("path")

PathNext == CheckPath

SpecPath == InitPath /\ [][PathNext]_vars

(***************************************************************************)
(* Properties of executeTransaction.                                       *)
(***************************************************************************)
Done == pc = "done"

\* the journal's apply records, one per attempted change, in list order
ApplyRecords == SelectSeq(journal.operations, LAMBDA o : o.type = "apply")

ApplyFailed == \E i \in 1..Len(ApplyRecords) : ~ApplyRecords[i].success

\* rollbackTransaction restored the backup set and recorded it
RollbackPerformed ==
    \E i \in 1..Len(journal.operations) :
        journal.operations[i].type = "rollback"

Mutating == { "write", "unlink", "rename" }

\* C1: atomicity. With createBackups and without dryRun, when a change that
\* is neither the first nor the last of the list fails during apply (the
\* earlier ones having been applied), every file of the workspace has its
\* pre-transaction existence and content once executeTransaction has
\* finished.
C1_AtomicityAfterFailure ==
    (Done /\ options.createBackups /\ ~options.dryRun
          /\ ApplyFailed
          /\ Len(appliedFiles) >= 1
          /\ Len(ApplyRecords) < Len(changes0))
       => fs = fs0

\* C2: path containment. Every call the adapter makes on the real
\* filesystem is for a path isPathAllowed accepts; a change whose file is
\* not allowed makes the transaction end in an error with the workspace
\* untouched, and an attempted rename to a newPath that is not allowed is
\* recorded as failed.
C2_PathContainment ==
    /\ \A c \in touched : isPathAllowed(c.path)
    /\ (Done /\ \E i \in 1..Len(changes0) : ~isPathAllowed(changes0[i].file))
          => (outcome = "thrown" /\ fs = fs0)
    /\ \A i \in 1..Len(ApplyRecords) :
          (changes[i].op = "rename" /\ Truthy(changes[i].newPath)
              /\ ~isPathAllowed(changes[i].newPath))
             => (~ApplyRecords[i].success /\ Len(errors) >= 1)

C2_Witness ==
    /\ Done
    /\ touched # {}
    /\ \E i \in 1..Len(ApplyRecords) :
          /\ changes[i].op = "rename"
          /\ changes[i].newPath = Forbidden
          /\ ~ApplyRecords[i].success

\* the changes phase 2 marks invalid (the workspace is still fs0 then)
InvalidChanges ==
    { i \in 1..Len(changes0) : ~validateChange(fs0, changes0[i]).result.valid }

\* C3: validation aborts before any mutation. If validateChanges marks at
\* least one change invalid, no adapter write, delete or rename is made,
\* the workspace is as it was, the error thrown holds the error of every
\* invalid change and the journal ends failed.
C3_ValidationAborts ==
    (InvalidChanges # {} /\ pc \in { "catch", "done" })
       => /\ thrown.msg = "Validation failed"
          /\ Len(thrown.causes) = Cardinality(InvalidChanges)
          /\ \A i \in InvalidChanges :
                \E k \in 1..Len(thrown.causes) :
                   thrown.causes[k] = validateChange(fs0, changes0[i]).result.error
          /\ \A c \in touched : c.kind \notin Mutating
          /\ fs = fs0
          /\ journal.operations = <<>>
          /\ Done => (outcome = "thrown" /\ journal.status = "failed")

C3_Witness ==
    /\ Done
    /\ backups.present
    /\ Cardinality(InvalidChanges) = 2
    /\ thrown.msg = "Validation failed"
    /\ thrown.causes[1] # thrown.causes[2]

\* C4: journal state machine. Once executeTransaction has finished, a
\* journal whose transaction was rolled back has status rolled_back, status
\* failed means no rollback was performed, and no journal is left pending.
C4_JournalStatus ==
    Done => /\ RollbackPerformed => journal.status = "rolled_back"
            /\ journal.status = "failed" => ~RollbackPerformed
            /\ journal.status # "pending"

\* C5: create precondition at apply time. A create change whose target
\* exists when it is applied is not applied: the file keeps its content and
\* the change is not reported as applied.
C5_CreatePrecondition ==
    [][(/\ pc = "apply"
        /\ idx <= Len(changes)
        /\ changes[idx].op = "create"
        /\ fs[Location(changes[idx].file)].exists)
          => (/\ fs'[Location(changes[idx].file)]
                    = fs[Location(changes[idx].file)]
              /\ appliedFiles' = appliedFiles)]_vars

\* C6: dry run. With dryRun, executeTransaction never invokes rollback and
\* leaves every file of the workspace as it was.
C6_DryRunLeavesWorkspace ==
    options.dryRun => (fs = fs0 /\ pc # "rollback" /\ ~RollbackPerformed)

(***************************************************************************)
(* Properties of the path policy guard.                                    *)
(***************************************************************************)
\* the path has a parent-directory segment
HasParentSegment(p) ==
    \E i \in 1..Len(Split(p, Slash)) : Split(p, Slash)[i] = DotDot

RECURSIVE LowestDepth(_, _, _, _)
\* the lowest directory depth, relative to the workspace root, met while the
\* segments are resolved from the root
LowestDepth(segs, i, depth, low) ==
    IF i > Len(segs) THEN low
    ELSE With(IF segs[i] = <<>> \/ segs[i] = Dot THEN depth
              ELSE IF segs[i] = DotDot THEN depth - 1
              ELSE depth + 1,
              LAMBDA d : LowestDepth(segs, i + 1, d, IF d < low THEN d ELSE low))

\* joined to the workspace root, the path never leaves the root
InsideRoot(p) == LowestDepth(Split(p, Slash), 1, 0, 0) >= 0

TraversalExample == Join(<<DotDot, DotDot, SegEtc, SegPasswd>>, Slash)
AbsoluteExample == Join(<< <<>>, SegEtc, SegPasswd >>, Slash)
AcceptedExample == Join(<<SegSrc, SegApp>>, Slash)

\* C7: isPathAllowed is false for every absolute path and for every path
\* whose normalized form has a parent-directory segment; it is true only
\* if the normalized path starts with an allow-list entry; every accepted
\* path stays inside the workspace root; "../../etc/passwd" and
\* "/etc/passwd" are rejected and "src/App.tsx" is accepted.
C7_PathPolicy ==
    pathPc = "checked" =>
       /\ StartsWith(pathArg, <<Slash>>) => ~pathResult
       /\ HasParentSegment(normalize(pathArg)) => ~pathResult
       /\ pathResult => \E a \in allowedPaths : StartsWith(normalize(pathArg), a)
       /\ pathResult => InsideRoot(pathArg)
       /\ pathArg \in { TraversalExample, AbsoluteExample } => ~pathResult
       /\ pathArg = AcceptedExample => pathResult

\* a path with ".." in it that normalizes into the allow-list is accepted
C7_Witness ==
    /\ pathPc = "checked"
    /\ pathResult
    /\ Includes(pathArg, DotDot)

(***************************************************************************)
(* Planner service: validatePlan, validateFileChange and                   *)
(* hasCircularDependencies.  A step is its id and its dependency ids; step *)
(* ids are 1..n, and 0 is an id that no step of the plan has.              *)
(***************************************************************************)
UnknownStep == 0

PlanErr(msg, about) == [msg |-> msg, about |-> about]

PlanValid == [valid |-> TRUE, error |-> ""]
PlanInvalid(e) == [valid |-> FALSE, error |-> e]

\* a plausible slip: the payload of the apply-method is not checked
validateFileChangeNoPayload(fsys, change) ==
    IF ~isPathAllowed(change.file)
       THEN PlanInvalid("Path not allowed by security policy")
    ELSE IF change.op = "create" /\ exists(fsys, change.file).result
       THEN PlanInvalid("File already exists")
    ELSE IF change.op \in { "update", "delete" }
              /\ ~exists(fsys, change.file).result
       THEN PlanInvalid("File does not exist")
    ELSE IF change.op = "rename" /\ ~exists(fsys, change.file).result
       THEN PlanInvalid("Source file does not exist")
    ELSE IF change.op = "rename" /\ ~Truthy(change.newPath)
       THEN PlanInvalid("New path required for rename operation")
    ELSE PlanValid

validateFileChange(fsys, change) ==
    IF ~isPathAllowed(change.file)
       THEN PlanInvalid("Path not allowed by security policy")
    ELSE IF change.op = "create" /\ exists(fsys, change.file).result
       THEN PlanInvalid("File already exists")
    ELSE IF change.op \in { "update", "delete" }
              /\ ~exists(fsys, change.file).result
       THEN PlanInvalid("File does not exist")
    ELSE IF change.op = "rename" /\ ~exists(fsys, change.file).result
       THEN PlanInvalid("Source file does not exist")
    ELSE IF change.op = "rename" /\ ~Truthy(change.newPath)
       THEN PlanInvalid("New path required for rename operation")
    ELSE IF change.applyMethod = "diff" /\ ~Truthy(change.diff)
       THEN PlanInvalid("Diff content required for diff apply method")
    ELSE IF change.applyMethod = "replaceFile" /\ ~Truthy(change.content)
       THEN PlanInvalid("Content required for replaceFile apply method")
    ELSE IF change.applyMethod = "insertAtLine"
              /\ (change.insertAtLine = UndefinedLine \/ ~Truthy(change.content))
       THEN PlanInvalid(
               "Line number and content required for insertAtLine apply method")
    ELSE PlanValid

\* steps.find(s => s.id === stepId): the index of the first such step, or 0
FindStep(steps, stepId) ==
    IF \E i \in 1..Len(steps) : steps[i].id = stepId
       THEN CHOOSE i \in 1..Len(steps) :
               /\ steps[i].id = stepId
               /\ \A j \in 1..(i - 1) : steps[j].id # stepId
       ELSE 0

RECURSIVE hasCycle(_, _, _)
RECURSIVE hasCycleOfDeps(_, _, _, _)

\* the loop of hasCycle over the dependencies of a step, from the j-th on
hasCycleOfDeps(steps, deps, j, st) ==
    IF j > Len(deps) THEN st
    ELSE With(hasCycle(steps, deps[j], st), LAMBDA r :
            IF r.found THEN r ELSE hasCycleOfDeps(steps, deps, j + 1, r))

\* a plausible slip: the step is not taken off the recursion stack
hasCycleNoPop(steps, stepId, st) ==
    IF stepId \in st.recursionStack THEN [st EXCEPT !.found = TRUE]
    ELSE IF stepId \in st.visited THEN st
    ELSE With([st EXCEPT !.visited = @ \cup { stepId },
                         !.recursionStack = @ \cup { stepId }],
              LAMBDA entered :
                 IF FindStep(steps, stepId) = 0 THEN entered
                 ELSE hasCycleOfDeps(steps,
                         steps[FindStep(steps, stepId)].dependencies, 1,
                         entered))

\* the closure hasCycle of hasCircularDependencies; st holds the sets
\* visited and recursionStack, and found is its return value
hasCycle(steps, stepId, st) ==
    IF stepId \in st.recursionStack THEN [st EXCEPT !.found = TRUE]
    ELSE IF stepId \in st.visited THEN st
    ELSE With(With([st EXCEPT !.visited = @ \cup { stepId },
                              !.recursionStack = @ \cup { stepId }],
                   LAMBDA entered :
                      IF FindStep(steps, stepId) = 0 THEN entered
                      ELSE hasCycleOfDeps(steps,
                              steps[FindStep(steps, stepId)].dependencies, 1,
                              entered)),
              LAMBDA after :
                 IF after.found THEN after
                 ELSE [after EXCEPT !.recursionStack = @ \ { stepId }])

RECURSIVE hasCycleFrom(_, _, _)
\* the loop of hasCircularDependencies over the steps, from the i-th on
hasCycleFrom(steps, i, st) ==
    IF i > Len(steps) THEN st
    ELSE With(hasCycle(steps, steps[i].id, st), LAMBDA r :
            IF r.found THEN r ELSE hasCycleFrom(steps, i + 1, r))

hasCircularDependencies(steps) ==
    hasCycleFrom(steps, 1,
                 [visited |-> {}, recursionStack |-> {}, found |-> FALSE]).found

RECURSIVE fileErrorsFrom(_, _, _, _)
\* the first loop of validatePlan: one error per invalid file change
fileErrorsFrom(fsys, chs, i, acc) ==
    IF i > Len(chs) THEN acc
    ELSE fileErrorsFrom(fsys, chs, i + 1,
            With(validateFileChange(fsys, chs[i]), LAMBDA v :
               IF v.valid THEN acc
               ELSE Append(acc, PlanErr(v.error, chs[i].file))))

RECURSIVE dependencyErrorsFrom(_, _, _, _)
\* the second loop of validatePlan: one error per dependency id that is no
\* step id, in the order of the steps and of their dependencies
dependencyErrorsFrom(steps, stepIds, i, acc) ==
    IF i > Len(steps) THEN acc
    ELSE dependencyErrorsFrom(steps, stepIds, i + 1,
            With(SelectSeq(steps[i].dependencies, LAMBDA d : d \notin stepIds),
                 LAMBDA bad :
                    acc \o [k \in 1..Len(bad) |->
                              PlanErr("Step has invalid dependency",
                                      <<steps[i].id, bad[k]>>)]))

CircularError == PlanErr("Plan contains circular dependencies", <<>>)

validatePlan(fsys, response) ==
    With(dependencyErrorsFrom(response.steps,
                              { response.steps[i].id :
                                   i \in 1..Len(response.steps) },
                              1,
                              fileErrorsFrom(fsys, response.changes, 1, <<>>))
            \o (IF hasCircularDependencies(response.steps)
                   THEN <<CircularError>> ELSE <<>>),
         LAMBDA errs : [valid |-> Len(errs) = 0, errors |-> errs])

(***************************************************************************)
(* One call of validatePlan on a plan drawn from a bounded set.  A step     *)
(* graph is a number of steps and a set of (step, dependency id) pairs; the *)
(* dependency ids of a step are listed in ascending order.                  *)
(***************************************************************************)
RECURSIVE SeqOfSet(_, _)
SeqOfSet(S, acc) ==
    IF S = {} THEN acc
    ELSE With(CHOOSE m \in S : \A x \in S : m <= x, LAMBDA m :
            SeqOfSet(S \ { m }, Append(acc, m)))

StepGraphs(maxSteps, maxEdges) ==
    UNION { { [n |-> n, edges |-> E] :
                E \in { F \in SUBSET ((1..n) \X (0..n)) :
                          Cardinality(F) <= maxEdges } } :
            n \in 0..maxSteps }

StepsOf(g) ==
    [i \in 1..g.n |->
        [id |-> i,
         dependencies |-> SeqOfSet({ d \in 0..g.n : <<i, d>> \in g.edges },
                                   <<>>)]]

\* the changes of ChangePool and changes that lack the payload of their
\* apply-method (an absent diff, an absent line number, an empty content)
PlanChangePool ==
    ChangePool \cup
    { Change(FileA, "update", "diff", Undefined, New, Undefined, UndefinedLine),
      Change(FileA, "update", "insertAtLine", Undefined, New, Undefined, UndefinedLine),
      Change(FileA, "update", "insertAtLine", Undefined, Undefined, Undefined, 0),
      Change(FileB, "create", "replaceFile", Undefined, <<>>, Undefined, UndefinedLine) }

PlanChangeLists == UNION { [1..n -> PlanChangePool] : n \in 0..MaxPlanChanges }

\* plans with file changes and a small step graph, in any workspace
PlanInit ==
    /\ planPc = "input"
    /\ plan \in { [steps |-> StepsOf(g), changes |-> chs] :
                    g \in StepGraphs(MaxPlanSteps, MaxPlanEdges),
                    chs \in PlanChangeLists }
    /\ planFs \in Workspaces
    /\ planResult = [valid |-> FALSE, errors |-> <<>>]

\* plans without file changes and a larger step graph
CycleInit ==
    /\ planPc = "input"
    /\ plan \in { [steps |-> StepsOf(g), changes |-> <<>>] :
                    g \in StepGraphs(MaxSteps, MaxEdges) }
    /\ planFs \in { w \in Workspaces : \A l \in Locations : w[l].exists }
    /\ planResult = [valid |-> FALSE, errors |-> <<>>]

\* PlannerService.validatePlan(plan)
ValidatePlan ==
    /\ planPc = "input"
    /\ planResult' = validatePlan(planFs, plan)
    /\ planPc' = "validated"
    /\ UNCHANGED <<plan, planFs, notPlan>>

PlanNext == ValidatePlan

InitPlan == PlanInit /\ IdleExcept("plan")

SpecPlan == InitPlan /\ [][PlanNext]_vars

InitCycle == CycleInit /\ IdleExcept("plan")

SpecCycle == InitCycle /\ [][PlanNext]_vars

(***************************************************************************)
(* Properties of the planner service.                                      *)
(***************************************************************************)
StepIdsOf(steps) == { steps[i].id : i \in 1..Len(steps) }

\* some step has a dependency id that is no step id of the plan
HasDanglingDependency(steps) ==
    \E i \in 1..Len(steps) :
        \E k \in 1..Len(steps[i].dependencies) :
            steps[i].dependencies[k] \notin StepIdsOf(steps)

\* a depends directly on b
DependsOn(steps, a, b) ==
    \E i \in 1..Len(steps) :
        /\ steps[i].id = a
        /\ \E k \in 1..Len(steps[i].dependencies) :
              steps[i].dependencies[k] = b

RECURSIVE ReachableFrom(_, _, _)
\* the ids reached from the ids of front in one or more dependency steps
ReachableFrom(steps, front, seen) ==
    With({ b \in StepIdsOf(steps) \cup { UnknownStep } :
             \E a \in front : DependsOn(steps, a, b) } \ seen,
         LAMBDA next :
            IF next = {} THEN seen
            ELSE ReachableFrom(steps, next, seen \cup next))

OnCycle(steps, a) == a \in ReachableFrom(steps, { a }, {})

\* the dependency relation has a directed cycle
HasDirectedCycle(steps) == \E a \in StepIdsOf(steps) : OnCycle(steps, a)

\* the file is in the workspace
Present(fsys, filePath) == fsys[Location(filePath)].exists

\* the precondition of a file change: path policy, existence precondition
\* of its operation, newPath of a rename, payload of its apply-method (an
\* empty string counts as no payload)
Precondition(fsys, change) ==
    /\ isPathAllowed(change.file)
    /\ change.op = "create" => ~Present(fsys, change.file)
    /\ change.op \in { "update", "delete", "rename" }
          => Present(fsys, change.file)
    /\ change.op = "rename" => Truthy(change.newPath)
    /\ change.applyMethod = "diff" => Truthy(change.diff)
    /\ change.applyMethod = "replaceFile" => Truthy(change.content)
    /\ change.applyMethod = "insertAtLine"
          => (change.insertAtLine # UndefinedLine /\ Truthy(change.content))

CircularErrors ==
    Len(SelectSeq(planResult.errors, LAMBDA e : e = CircularError))

\* C8: validatePlan returns valid = false exactly if some step has a
\* dependency id that is no step id, or the dependency graph has a cycle,
\* or some file change fails its precondition; valid is true exactly when
\* the errors list is empty.
C8_ValidatePlanResult ==
    planPc = "validated" =>
       /\ ~planResult.valid <=>
             \/ HasDanglingDependency(plan.steps)
             \/ HasDirectedCycle(plan.steps)
             \/ \E i \in 1..Len(plan.changes) :
                   ~Precondition(planFs, plan.changes[i])
       /\ planResult.valid <=> planResult.errors = <<>>

\* a plan that is invalid for its file change alone
C8_Witness ==
    /\ planPc = "validated"
    /\ ~planResult.valid
    /\ Len(plan.steps) = 2
    /\ ~HasDanglingDependency(plan.steps)
    /\ ~HasDirectedCycle(plan.steps)
    /\ Len(planResult.errors) = 1

\* C9: hasCircularDependencies returns true exactly if the dependency
\* relation of the steps has a directed cycle, and validatePlan then
\* reports exactly one circular-dependency error, however many cycles
\* there are (and none without a cycle).
C9_CycleDetection ==
    planPc = "validated" =>
       /\ hasCircularDependencies(plan.steps) <=> HasDirectedCycle(plan.steps)
       /\ CircularErrors = (IF HasDirectedCycle(plan.steps) THEN 1 ELSE 0)
       /\ HasDirectedCycle(plan.steps) => ~planResult.valid

\* two separate cycles, a step depending on itself and two steps depending
\* on each other, and one error
C9_Witness ==
    /\ planPc = "validated"
    /\ Len(plan.steps) = 3
    /\ DependsOn(plan.steps, 1, 1)
    /\ DependsOn(plan.steps, 2, 3)
    /\ DependsOn(plan.steps, 3, 2)
    /\ ~DependsOn(plan.steps, 1, 2)
    /\ CircularErrors = 1

(***************************************************************************)
(* FSAdapter.writeFile step by step: several calls on the same path run    *)
(* concurrently, interleaved at their awaits, next to a reader of the path. *)
(* A name of the directory refers to an inode; an open file keeps its      *)
(* inode whatever the names do.                                            *)
(***************************************************************************)
Writers == 1..MaxWriters

\* the filePath all the calls are given
WritePath == FileA

\* absolutePath and `${absolutePath}.tmp`
TargetPath == Location(WritePath)
TempPath == TargetPath \o <<".", "t", "m", "p">>

NoInode == 0
OriginalInode == 1

\* the contents handed to writeFile
WriteContents == { <<"A", "B">>, <<"C", "D">> }

\* the byte of a hole, left by a write past the end of a file
Hole == "0"

\* the content of a file after data is written at position pos of it
WriteAt(content, pos, data) ==
    [k \in 1..(IF Len(content) > pos + Len(data)
                  THEN Len(content) ELSE pos + Len(data)) |->
        IF k > pos /\ k <= pos + Len(data) THEN data[k - pos]
        ELSE IF k <= Len(content) THEN content[k]
        ELSE Hole]

WriteInit ==
    /\ names = [n \in { TargetPath, TempPath } |->
                  IF n = TargetPath THEN OriginalInode ELSE NoInode]
    /\ inodes = <<Old>>
    /\ writers \in [Writers -> { [pc |-> "start", content |-> c,
                                  fd |-> NoInode, written |-> 0] :
                                 c \in WriteContents }]
    /\ observed = [read |-> FALSE, content |-> <<>>]

\* getAbsolutePath, fs.mkdir, and the open of fs.writeFile(tempPath, ...):
\* the file of that name is created if there is none and truncated if
\* there is one
OpenTemp(w) ==
    /\ writers[w].pc = "start"
    /\ getAbsolutePath(WritePath).ok
    /\ IF names[TempPath] = NoInode
          THEN /\ inodes' = Append(inodes, <<>>)
               /\ names' = [names EXCEPT ![TempPath] = Len(inodes) + 1]
          ELSE /\ inodes' = [inodes EXCEPT ![names[TempPath]] = <<>>]
               /\ UNCHANGED names
    /\ writers' = [writers EXCEPT ![w].pc = "writing",
                                  ![w].fd = names'[TempPath]]
    /\ UNCHANGED <<observed, notWrite>>

\* a write of fs.writeFile: the next n characters go to the open file at
\* the position of this call
WriteChunk(w) ==
    /\ writers[w].pc = "writing"
    /\ \E n \in 1..(Len(writers[w].content) - writers[w].written) :
          /\ inodes' = [inodes EXCEPT ![writers[w].fd] =
                          WriteAt(@, writers[w].written,
                                  SubSeq(writers[w].content,
                                         writers[w].written + 1,
                                         writers[w].written + n))]
          /\ writers' = [writers EXCEPT
                            ![w].written = @ + n,
                            ![w].pc = IF writers[w].written + n
                                            = Len(writers[w].content)
                                         THEN "written" ELSE "writing"]
    /\ UNCHANGED <<names, observed, notWrite>>

\* fs.rename(tempPath, absolutePath); it fails when the name is gone, and
\* writeFile then throws
RenameTemp(w) ==
    /\ writers[w].pc = "written"
    /\ IF names[TempPath] = NoInode
          THEN /\ writers' = [writers EXCEPT ![w].pc = "failed"]
               /\ UNCHANGED names
          ELSE /\ names' = [names EXCEPT ![TargetPath] = names[TempPath],
                                         ![TempPath] = NoInode]
               /\ writers' = [writers EXCEPT ![w].pc = "done"]
    /\ UNCHANGED <<inodes, observed, notWrite>>

\* a reader reads the target path
ReadTarget ==
    /\ names # <<>>
    /\ names[TargetPath] # NoInode
    /\ observed' = [read |-> TRUE, content |-> inodes[names[TargetPath]]]
    /\ UNCHANGED <<names, inodes, writers, notWrite>>

WriteStep == \E w \in Writers : OpenTemp(w) \/ WriteChunk(w) \/ RenameTemp(w)

WriteNext == WriteStep \/ ReadTarget

InitWrite == WriteInit /\ IdleExcept("write")

SpecWrite == InitWrite /\ [][WriteNext]_vars

\* C10: a reader of the target of writeFile calls, two calls on the same
\* path running concurrently included, never observes a content other than
\* the complete original content or one complete content passed to some
\* writeFile.
C10_WriteAtomicity ==
    observed.read =>
       observed.content \in { Old } \cup { writers[w].content : w \in Writers }

(***************************************************************************)
(* The event emitter: WebSocket connections come and go, internal          *)
(* listeners are registered with on(), and emit() hands an event to the    *)
(* listeners of its type and broadcasts it to the connections.             *)
(***************************************************************************)
Sockets == 1..MaxSockets

\* StreamEvent['type']
EventTypes ==
    { "ai.started", "ai.token", "ai.completed", "fs.diffValidated",
      "apply.progress", "build.status", "error" }

\* the types listeners are registered for in this model
ListenerTypes == { "apply.progress", "error" }

\* a payload without a correlationId
NoCorrelation == ""

\* the object payloads handed to emit
Payloads == { [correlationId |-> "c1"], [correlationId |-> NoCorrelation] }

NoEmit == [done |-> FALSE]

EventInit ==
    /\ connections = {}
    /\ readyState = [ws \in Sockets |-> "NONE"]
    /\ sendThrows = [ws \in Sockets |-> FALSE]
    /\ listeners = <<>>
    /\ lastEmit = NoEmit
    /\ emits = 0

\* addConnection(ws) for a connection the server has just accepted; whether
\* a later ws.send on it throws is not known to the emitter
AddConnection(ws) ==
    /\ readyState[ws] = "NONE"
    /\ connections' = connections \cup { ws }
    /\ readyState' = [readyState EXCEPT ![ws] = "OPEN"]
    /\ \E t \in BOOLEAN : sendThrows' = [sendThrows EXCEPT ![ws] = t]
    /\ UNCHANGED <<listeners, lastEmit, emits, notEvent>>

\* the connection starts closing; its 'close' event is still to come
BeginClose(ws) ==
    /\ readyState[ws] = "OPEN"
    /\ readyState' = [readyState EXCEPT ![ws] = "CLOSING"]
    /\ UNCHANGED <<connections, sendThrows, listeners, lastEmit, emits,
                   notEvent>>

\* ws.on('close', ...) of addConnection
CloseEvent(ws) ==
    /\ readyState[ws] = "CLOSING"
    /\ readyState' = [readyState EXCEPT ![ws] = "CLOSED"]
    /\ connections' = connections \ { ws }
    /\ UNCHANGED <<sendThrows, listeners, lastEmit, emits, notEvent>>

\* ws.on('error', ...) of addConnection
ErrorEvent(ws) ==
    /\ readyState[ws] = "OPEN"
    /\ ws \in connections
    /\ readyState' = [readyState EXCEPT ![ws] = "CLOSING"]
    /\ connections' = connections \ { ws }
    /\ UNCHANGED <<sendThrows, listeners, lastEmit, emits, notEvent>>

\* on(type, listener), for a listener that returns or one that throws
On ==
    /\ emits < MaxEmits
    /\ Len(listeners) < MaxListeners
    /\ \E type \in ListenerTypes, t \in BOOLEAN :
          listeners' = Append(listeners, [type |-> type, throws |-> t])
    /\ UNCHANGED <<connections, readyState, sendThrows, lastEmit, emits,
                   notEvent>>

\* the event object emit builds
StreamEvent(type, data) ==
    [type |-> type, data |-> data,
     correlationId |-> IF data.correlationId # NoCorrelation
                          THEN data.correlationId ELSE "unknown",
     timestamp |-> "now"]

\* validateStreamEvent returns for an event of the schema and throws otherwise
validateStreamEvent(event) ==
    /\ event.type \in EventTypes
    /\ event.correlationId \in STRING
    /\ event.timestamp = "now"

ListenersOf(type) == SelectSeq(listeners, LAMBDA l : l.type = type)

\* emitter.emit(type, event) of Node's EventEmitter: the listeners of the
\* type are called in the order of their registration; an exception of a
\* listener ends the call and is thrown to the caller, and so is an 'error'
\* event that has no listener. called is the number of listeners called.
emitterEmit(ls, type) ==
    IF type = "error" /\ ls = <<>>
       THEN [threw |-> TRUE, called |-> 0]
    ELSE IF \E i \in 1..Len(ls) : ls[i].throws
       THEN [threw |-> TRUE,
             called |-> CHOOSE i \in 1..Len(ls) :
                           /\ ls[i].throws
                           /\ \A j \in 1..(i - 1) : ~ls[j].throws]
    ELSE [threw |-> FALSE, called |-> Len(ls)]

\* the connections broadcast sends the message to
broadcast(event) ==
    { ws \in connections : readyState[ws] = "OPEN" /\ ~sendThrows[ws] }

\* emit(type, data)
Emit ==
    /\ emits < MaxEmits
    /\ \E type \in EventTypes, data \in Payloads :
       \E event \in { StreamEvent(type, data) } :
       \E r \in { IF validateStreamEvent(event)
                     THEN emitterEmit(ListenersOf(type), type)
                     ELSE [threw |-> TRUE, called |-> 0] } :
          /\ lastEmit' =
                [done |-> TRUE,
                 event |-> event,
                 connectionsBefore |-> connections,
                 open |-> { ws \in connections : readyState[ws] = "OPEN" },
                 registered |-> Len(ListenersOf(type)),
                 listenerThrows |-> \E i \in 1..Len(ListenersOf(type)) :
                                       ListenersOf(type)[i].throws,
                 called |-> r.called,
                 sent |-> [ws \in Sockets |->
                             IF ~r.threw /\ ws \in broadcast(event)
                                THEN <<event>> ELSE <<>>],
                 raised |-> FALSE]
          /\ connections' = IF r.threw THEN connections
                            ELSE broadcast(event)
    /\ emits' = emits + 1
    /\ UNCHANGED <<readyState, sendThrows, listeners, notEvent>>

SocketStep ==
    \E ws \in Sockets :
        AddConnection(ws) \/ BeginClose(ws) \/ CloseEvent(ws) \/ ErrorEvent(ws)

EventNext == SocketStep \/ On \/ Emit

InitEvent == EventInit /\ IdleExcept("event")

SpecEvent == InitEvent /\ [][EventNext]_vars

(***************************************************************************)
(* Properties of the event emitter.                                        *)
(***************************************************************************)
\* the connections that were OPEN at the last emit and whose send works
Receivers == { ws \in lastEmit.open : ~sendThrows[ws] }

\* C11: event broadcast. One call of emit with an object payload, for any
\* event type (type 'error' included) and whether or not an internal
\* listener is registered for the type, sends exactly one message, with a
\* correlation id and a timestamp, to every connection that is OPEN.
C11_EventBroadcast ==
    lastEmit.done =>
       \A ws \in Receivers :
          /\ Len(lastEmit.sent[ws]) = 1
          /\ lastEmit.sent[ws][1].type = lastEmit.event.type
          /\ lastEmit.sent[ws][1].correlationId # NoCorrelation
          /\ lastEmit.sent[ws][1].timestamp = "now"

\* C12: subscriber failure isolation. When the delivery to one subscriber
\* fails (a send throws, a connection is not OPEN, an internal listener
\* throws), every other subscriber still receives the event, the failed
\* connections leave the connection set, and emit throws nothing. (The
\* 'error' event without a listener, which C11 is about, is left aside.)
C12_FailureIsolation ==
    (/\ lastEmit.done
     /\ ~(lastEmit.event.type = "error" /\ lastEmit.registered = 0)
     /\ \/ lastEmit.listenerThrows
        \/ lastEmit.connectionsBefore \ Receivers # {})
    =>
       /\ ~lastEmit.raised
       /\ \A ws \in Receivers : lastEmit.sent[ws] = <<lastEmit.event>>
       /\ lastEmit.called = lastEmit.registered
       /\ \A ws \in lastEmit.connectionsBefore \ Receivers :
             ws \notin connections

(***************************************************************************)
(* The build manager: triggerBuild queues a build and arms the debounce    *)
(* timer; executeBuild spawns the child process; the handlers of the       *)
(* child's 'close' and 'error' events and cancelBuild reset the flags.     *)
(* A build id is the number of its triggerBuild call, a process the        *)
(* number of its spawn.                                                    *)
(***************************************************************************)
\* currentBuild = null
NoProcess == 0

BuildIds == 1..MaxBuilds

BuildInit ==
    /\ buildQueue = <<>>
    /\ isBuilding = FALSE
    /\ currentBuild = NoProcess
    /\ buildTimeout = FALSE
    /\ retryTimers = 0
    /\ procs = <<>>
    /\ buildHistory = [b \in BuildIds |-> "none"]
    /\ triggered = 0

\* triggerBuild(correlationId) with debouncedBuild: the build is queued and
\* the debounce timer is cleared and set
TriggerBuild ==
    /\ triggered < MaxBuilds
    /\ triggered' = triggered + 1
    /\ buildQueue' = Append(buildQueue, triggered + 1)
    /\ buildTimeout' = TRUE
    /\ UNCHANGED <<isBuilding, currentBuild, retryTimers, procs, buildHistory,
                   notBuild>>

\* this.currentBuild.kill('SIGTERM'): the process is told to end and is
\* alive until it has closed
Kill(ps, p) ==
    IF p # NoProcess /\ ps[p].state = "running"
       THEN [ps EXCEPT ![p].state = "killed"]
       ELSE ps

\* executeBuild(): the state after the call, for a spawn that starts the
\* process (started) or one that fails and reports it with 'error'
executeBuild(started) ==
    IF isBuilding \/ Len(buildQueue) = 0
       THEN [buildQueue |-> buildQueue, isBuilding |-> isBuilding,
             currentBuild |-> currentBuild, procs |-> procs,
             buildHistory |-> buildHistory]
       ELSE [buildQueue |-> Tail(buildQueue),
             isBuilding |-> TRUE,
             currentBuild |-> Len(procs) + 1,
             procs |-> Append(Kill(procs, currentBuild),
                              [build |-> Head(buildQueue),
                               state |-> IF started THEN "running"
                                                    ELSE "failing"]),
             buildHistory |-> [buildHistory EXCEPT ![Head(buildQueue)] =
                                  "building"]]

\* the callback of the debounce timer
DebounceFire ==
    /\ buildTimeout
    /\ buildTimeout' = FALSE
    /\ IF ~isBuilding /\ Len(buildQueue) > 0
          THEN \E started \in BOOLEAN :
               \E e \in { executeBuild(started) } :
                  /\ buildQueue' = e.buildQueue
                  /\ isBuilding' = e.isBuilding
                  /\ currentBuild' = e.currentBuild
                  /\ procs' = e.procs
                  /\ buildHistory' = e.buildHistory
          ELSE UNCHANGED <<buildQueue, isBuilding, currentBuild, procs,
                           buildHistory>>
    /\ UNCHANGED <<retryTimers, triggered, notBuild>>

\* the callback of a timer set by the 'close' handler: executeBuild()
RetryFire ==
    /\ retryTimers > 0
    /\ retryTimers' = retryTimers - 1
    /\ \E started \in BOOLEAN :
       \E e \in { executeBuild(started) } :
          /\ buildQueue' = e.buildQueue
          /\ isBuilding' = e.isBuilding
          /\ currentBuild' = e.currentBuild
          /\ procs' = e.procs
          /\ buildHistory' = e.buildHistory
    /\ UNCHANGED <<buildTimeout, triggered, notBuild>>

\* the 'close' event of a child process and its handler; code is the exit
\* code being 0
ProcClose(p) ==
    /\ procs[p].state \in { "running", "killed", "errored" }
    /\ procs' = [procs EXCEPT ![p].state = "closed"]
    /\ \E code \in BOOLEAN :
          buildHistory' = [buildHistory EXCEPT ![procs[p].build] =
                              IF code THEN "success" ELSE "failed"]
    /\ isBuilding' = FALSE
    /\ currentBuild' = NoProcess
    /\ retryTimers' = IF Len(buildQueue) > 0 THEN retryTimers + 1
                      ELSE retryTimers
    /\ UNCHANGED <<buildQueue, buildTimeout, triggered, notBuild>>

\* the 'error' event of a child process that could not be spawned, and its
\* handler
ProcError(p) ==
    /\ procs[p].state = "failing"
    /\ procs' = [procs EXCEPT ![p].state = "errored"]
    /\ buildHistory' = [buildHistory EXCEPT ![procs[p].build] = "failed"]
    /\ isBuilding' = FALSE
    /\ currentBuild' = NoProcess
    /\ UNCHANGED <<buildQueue, buildTimeout, retryTimers, triggered, notBuild>>

\* cancelBuild(buildId) when a build is running (it returns false and
\* changes nothing otherwise)
CancelBuild(buildId) ==
    /\ currentBuild # NoProcess
    /\ isBuilding
    /\ procs' = Kill(procs, currentBuild)
    /\ isBuilding' = FALSE
    /\ buildHistory' = IF buildHistory[buildId] # "none"
                          THEN [buildHistory EXCEPT ![buildId] = "failed"]
                          ELSE buildHistory
    /\ UNCHANGED <<buildQueue, currentBuild, buildTimeout, retryTimers,
                   triggered, notBuild>>

ProcStep == \E p \in 1..Len(procs) : ProcClose(p) \/ ProcError(p)

CancelStep == \E buildId \in BuildIds : CancelBuild(buildId)

BuildNext ==
    TriggerBuild \/ DebounceFire \/ RetryFire \/ ProcStep \/ CancelStep

InitBuild == BuildInit /\ IdleExcept("build")

SpecBuild == InitBuild /\ [][BuildNext]_vars

\* the child processes that were spawned and have not closed
Alive == { p \in 1..Len(procs) : procs[p].state \in { "running", "killed" } }

\* C13: build serialization. Under every interleaving of triggerBuild
\* calls, timer firings, child-process events and cancelBuild calls, at
\* most one build child process is alive at any time.
C13_BuildSerialization == Cardinality(Alive) <= 1

(***************************************************************************)
(* The file routes: one request to GET /files/content, GET /files/metadata *)
(* or POST /files/save, handled on a workspace.                            *)
(***************************************************************************)
\* a forbidden path whose name holds the words the routes look for
OddPath == <<"e", "t", "c", "/", "n", "o", "t", " ", "a", "l", "l", "o", "w", "e", "d">>

FilePaths == { FileA, Forbidden, OddPath }

FileLocations == { Location(p) : p \in FilePaths }

\* etag(content): a fingerprint of the content, different for different
\* contents
Etag(content) == <<"W", "/">> \o content

\* the text of the errors the adapter throws: `${msg}: ${filePath}`
MessageText(error) ==
    (CASE error.msg = "Failed to read file" -> <<"F", "a", "i", "l", "e", "d", " ", "t", "o", " ", "r", "e", "a", "d", " ", "f", "i", "l", "e">>
       [] error.msg = "Failed to write file" -> <<"F", "a", "i", "l", "e", "d", " ", "t", "o", " ", "w", "r", "i", "t", "e", " ", "f", "i", "l", "e">>
       [] error.msg = "Failed to get metadata for" -> <<"F", "a", "i", "l", "e", "d", " ", "t", "o", " ", "g", "e", "t", " ", "m", "e", "t", "a", "d", "a", "t", "a", " ", "f", "o", "r">>)
    \o <<":", " ">> \o error.file

NotAllowedWords == <<"n", "o", "t", " ", "a", "l", "l", "o", "w", "e", "d">>

\* FSAdapter.getFileMetadata, as far as its etag
getFileMetadata(fsys, filePath) ==
    With(getAbsolutePath(filePath), LAMBDA abs :
       IF abs.ok /\ fsys[abs.path].exists
          THEN [ok |-> TRUE, etag |-> Etag(fsys[abs.path].content),
                error |-> NoError]
          ELSE [ok |-> FALSE, etag |-> <<>>,
                error |-> Err("Failed to get metadata for", filePath)])

Response(status, code) == [status |-> status, code |-> code]

\* the catch blocks of the routes: 403 for a message that holds 'not
\* allowed', 500 with the route's own code otherwise
ErrorResponse(error, code) ==
    IF Includes(MessageText(error), NotAllowedWords)
       THEN Response(403, "PATH_FORBIDDEN")
       ELSE Response(500, code)

\* router.get('/content')
getContent(fsys, req) ==
    IF ~Truthy(req.path) THEN Response(400, "INVALID_PATH")
    ELSE With(readFile(fsys, req.path), LAMBDA r :
            IF ~r.ok THEN ErrorResponse(r.error, "FILE_READ_FAILED")
            ELSE With(getFileMetadata(fsys, req.path), LAMBDA m :
                    IF ~m.ok THEN ErrorResponse(m.error, "FILE_READ_FAILED")
                    ELSE Response(200, "OK")))

\* router.get('/metadata')
getMetadata(fsys, req) ==
    IF ~Truthy(req.path) THEN Response(400, "INVALID_PATH")
    ELSE With(getFileMetadata(fsys, req.path), LAMBDA m :
            IF ~m.ok THEN ErrorResponse(m.error, "METADATA_FAILED")
            ELSE Response(200, "OK"))

\* the module systems the sources can be built for: the build files are
\* not part of the sources, the imports are written for ES modules
ModuleSystems == { "commonjs", "esm" }

\* require('etag') of router.post('/save'): the function in a CommonJS
\* module, a ReferenceError in an ES module, where require is not defined
requireEtag(system) == system = "commonjs"

\* the check for concurrent modifications of router.post('/save'): whether
\* the check is entered, and whether it finds a difference
checksFingerprint(fsys, req) ==
    /\ Truthy(req.expectedEtag)
    /\ exists(fsys, req.path).result

concurrentModification(fsys, req) ==
    /\ checksFingerprint(fsys, req)
    /\ Etag(readFile(fsys, req.path).content) # req.expectedEtag

\* router.post('/save'): the response and the workspace after it
postSave(fsys, req, system) ==
    IF ~Truthy(req.path)
       THEN [res |-> Response(400, "INVALID_PATH"), fs |-> fsys]
    ELSE IF req.content = Undefined
       THEN [res |-> Response(400, "INVALID_CONTENT"), fs |-> fsys]
    ELSE IF checksFingerprint(fsys, req) /\ ~requireEtag(system)
       THEN [res |-> Response(500, "FILE_SAVE_FAILED"), fs |-> fsys]
    ELSE IF concurrentModification(fsys, req)
       THEN [res |-> Response(409, "CONCURRENT_MODIFICATION"), fs |-> fsys]
    ELSE With(writeFile(fsys, req.path, req.content), LAMBDA w :
            IF ~w.ok
               THEN [res |-> ErrorResponse(w.error, "FILE_SAVE_FAILED"),
                     fs |-> fsys]
            ELSE With(getFileMetadata(w.fs, req.path), LAMBDA m :
                    IF ~m.ok
                       THEN [res |-> ErrorResponse(m.error, "FILE_SAVE_FAILED"),
                             fs |-> w.fs]
                       ELSE [res |-> Response(200, "OK"), fs |-> w.fs]))

\* the requests of the model; an expectedEtag is absent, empty or the
\* fingerprint of some content
FileRequests ==
    [route : { "content", "metadata" },
     path : FilePaths \cup { Undefined, <<>> },
     content : { Undefined }, expectedEtag : { Undefined }]
    \cup
    [route : { "save" },
     path : FilePaths \cup { Undefined, <<>> },
     content : { Undefined, Old, New, <<>> },
     expectedEtag : { Undefined, <<>>, Etag(Old), Etag(New), Etag(<<>>) }]

FilesInit ==
    /\ filesPc = "request"
    /\ request \in FileRequests
    /\ store \in [FileLocations -> { NoFile, File(Old), File(New) }]
    /\ store0 = store
    /\ reply = Response(0, "")
    /\ moduleSystem \in ModuleSystems

\* the handler of the route of the request
HandleRequest ==
    /\ filesPc = "request"
    /\ filesPc' = "responded"
    /\ IF request.route = "save"
          THEN \E r \in { postSave(store, request, moduleSystem) } :
                  /\ reply' = r.res
                  /\ store' = r.fs
          ELSE /\ reply' = IF request.route = "content"
                            THEN getContent(store, request)
                            ELSE getMetadata(store, request)
               /\ UNCHANGED store
    /\ UNCHANGED <<request, store0, moduleSystem, notFiles>>

FilesNext == HandleRequest

InitFiles == FilesInit /\ IdleExcept("files")

SpecFiles == InitFiles /\ [][FilesNext]_vars

(***************************************************************************)
(* Properties of the file routes.                                          *)
(***************************************************************************)
Responded == filesPc = "responded"

\* the file of the request, before the request
Target0 == store0[Location(request.path)]

\* a save request that names an allowed path and carries a content
SaveOfAllowed ==
    /\ request.route = "save"
    /\ Truthy(request.path)
    /\ isPathAllowed(request.path)
    /\ request.content # Undefined

\* C14: fingerprint check on save. A save request with an expectedEtag
\* that differs from the etag of the file's current content is answered
\* 409 CONCURRENT_MODIFICATION and leaves the file unchanged; with the
\* matching expectedEtag, or without one, the content is written.
C14_SaveFingerprint ==
    (Responded /\ SaveOfAllowed) =>
       /\ (Target0.exists /\ Truthy(request.expectedEtag)
              /\ request.expectedEtag # Etag(Target0.content))
             => /\ reply = Response(409, "CONCURRENT_MODIFICATION")
                /\ store = store0
       /\ (\/ ~Truthy(request.expectedEtag)
           \/ (Target0.exists
                  /\ request.expectedEtag = Etag(Target0.content)))
             => /\ reply.status = 200
                /\ store[Location(request.path)] = File(request.content)
                /\ \A l \in FileLocations \ { Location(request.path) } :
                      store[l] = store0[l]

\* C15: path-forbidden error mapping. Every request to /files/content,
\* /files/metadata or /files/save whose path the path policy guard rejects
\* is answered 403 with code PATH_FORBIDDEN.
C15_PathForbidden ==
    (Responded /\ Truthy(request.path) /\ ~isPathAllowed(request.path)
        /\ (request.route = "save" => request.content # Undefined))
       => reply = Response(403, "PATH_FORBIDDEN")

(***************************************************************************)
(* The plan store of the planner (a Map from plan id to plan, which keeps  *)
(* its entries in insertion order) and the apply route that reads it.      *)
(***************************************************************************)
MaxStoredChanges == 2
MaxSelected == 2

PlanIds == { "p1", "p2" }

PlanFiles == { FileA, FileB }

\* the changes of a stored plan, by the file they name
StoredChange(f) == [type |-> "update", file |-> f]

StoredChangeLists ==
    UNION { [1..n -> { StoredChange(f) : f \in PlanFiles }] :
               n \in 0..MaxStoredChanges }

StoredPlans == [id : PlanIds, changes : StoredChangeLists]

\* null, what getPlan returns for an id that is not stored
NullPlan == [id |-> "null", changes |-> <<>>]

\* Map.prototype.has / get / set / delete / values on the list of entries
mapHas(m, k) == \E i \in 1..Len(m) : m[i].key = k

mapGet(m, k) ==
    IF mapHas(m, k)
       THEN m[CHOOSE i \in 1..Len(m) : m[i].key = k].value
       ELSE NullPlan

\* a plausible slip: a second entry for a key that is present
mapSetAppend(m, k, v) == Append(m, [key |-> k, value |-> v])

\* set replaces the value of a present key in place, and appends a new key
mapSet(m, k, v) ==
    IF mapHas(m, k)
       THEN [i \in 1..Len(m) |->
               IF m[i].key = k THEN [key |-> k, value |-> v] ELSE m[i]]
       ELSE Append(m, [key |-> k, value |-> v])

mapDelete(m, k) == SelectSeq(m, LAMBDA e : e.key # k)

mapValues(m) == [i \in 1..Len(m) |-> m[i].value]

\* selectedFiles of an apply request: not given, or a list of paths
SelectedFiles ==
    { [given |-> FALSE, files |-> <<>>] } \cup
    [given : { TRUE },
     files : UNION { [1..n -> PlanFiles] : n \in 0..MaxSelected }]

Includes1(list, x) == \E i \in 1..Len(list) : list[i] = x

\* "Filter changes if specific files selected" of the apply route
changesToApply(p, selectedFiles) ==
    IF selectedFiles.given /\ Len(selectedFiles.files) > 0
       THEN SelectSeq(p.changes,
                      LAMBDA change : Includes1(selectedFiles.files, change.file))
       ELSE p.changes

NoStoreOp == [op |-> "none", id |-> "", before |-> <<>>, found |-> FALSE]

StoreInit ==
    /\ activePlans = <<>>
    /\ latest = [id \in PlanIds |-> NullPlan]
    /\ storeOp = NoStoreOp

\* PlannerService.storePlan
StorePlan(response) ==
    /\ activePlans' = mapSet(activePlans, response.id, response)
    /\ latest' = [latest EXCEPT ![response.id] = response]
    /\ storeOp' = [op |-> "store", id |-> response.id,
                   before |-> activePlans, found |-> TRUE]
    /\ UNCHANGED notStore

\* PlannerService.getPlan
GetPlan(planId) ==
    /\ storeOp' = [op |-> "get", id |-> planId, before |-> activePlans,
                   found |-> mapHas(activePlans, planId),
                   result |-> mapGet(activePlans, planId)]
    /\ UNCHANGED <<activePlans, latest, notStore>>

\* PlannerService.getAllPlans
GetAllPlans ==
    /\ storeOp' = [op |-> "all", id |-> "", before |-> activePlans,
                   found |-> TRUE, result |-> mapValues(activePlans)]
    /\ UNCHANGED <<activePlans, latest, notStore>>

\* PlannerService.deletePlan
DeletePlan(planId) ==
    /\ activePlans' = mapDelete(activePlans, planId)
    /\ latest' = [latest EXCEPT ![planId] = NullPlan]
    /\ storeOp' = [op |-> "delete", id |-> planId, before |-> activePlans,
                   found |-> TRUE, result |-> mapHas(activePlans, planId)]
    /\ UNCHANGED notStore

\* router.post('/plan/:planId/apply') as far as the call of
\* executeTransaction: 404 for an unknown plan, otherwise the changes handed
\* over
ApplyPlan(planId, selectedFiles) ==
    /\ \E p \in { mapGet(activePlans, planId) } :
          storeOp' = [op |-> "apply", id |-> planId, before |-> activePlans,
                      found |-> p # NullPlan,
                      selectedFiles |-> selectedFiles,
                      plan |-> p,
                      handed |-> IF p = NullPlan THEN <<>>
                                 ELSE changesToApply(p, selectedFiles)]
    /\ UNCHANGED <<activePlans, latest, notStore>>

StoreStep == \E response \in StoredPlans : StorePlan(response)

GetStep == \E planId \in PlanIds : GetPlan(planId)

DeleteStep == \E planId \in PlanIds : DeletePlan(planId)

ApplyStep ==
    \E planId \in PlanIds, selectedFiles \in SelectedFiles :
       ApplyPlan(planId, selectedFiles)

StoreNext == StoreStep \/ GetStep \/ GetAllPlans \/ DeleteStep \/ ApplyStep

InitStore == StoreInit /\ IdleExcept("store")

SpecStore == InitStore /\ [][StoreNext]_vars

(***************************************************************************)
(* Properties of the plan store and of the apply route.                    *)
(***************************************************************************)
\* C16: selected-files filter. Whenever an apply request carries
\* selectedFiles, the changes handed to executeTransaction are exactly the
\* changes of the plan whose file is in selectedFiles, in the order of the
\* plan; without selectedFiles all changes are handed over.
C16_SelectedFilesFilter ==
    (storeOp.op = "apply" /\ storeOp.found) =>
       storeOp.handed =
          IF storeOp.selectedFiles.given
             THEN SelectSeq(storeOp.plan.changes,
                     LAMBDA change :
                        Includes1(storeOp.selectedFiles.files, change.file))
             ELSE storeOp.plan.changes

StoredIds == { id \in PlanIds : latest[id] # NullPlan }

\* C17: plan store round trip. getPlan(id) returns the plan most recently
\* stored under id and not deleted since, null otherwise; getAllPlans
\* returns exactly one plan per stored id; deletePlan(id) returns true iff
\* id was stored; an operation on one id leaves the entries of the other
\* ids as they were.
C17_PlanStoreRoundTrip ==
    /\ \A id \in PlanIds : mapGet(activePlans, id) = latest[id]
    /\ storeOp.op = "get" => storeOp.result = latest[storeOp.id]
    /\ storeOp.op = "all" =>
          /\ Len(storeOp.result) = Cardinality(StoredIds)
          /\ \A id \in StoredIds :
                \E i \in 1..Len(storeOp.result) : storeOp.result[i] = latest[id]
    /\ storeOp.op = "delete" =>
          /\ storeOp.result = mapHas(storeOp.before, storeOp.id)
          /\ latest[storeOp.id] = NullPlan
    /\ storeOp.op \in { "store", "delete" } =>
          \A id \in PlanIds \ { storeOp.id } :
             mapGet(activePlans, id) = mapGet(storeOp.before, id)
    /\ storeOp.op \in { "get", "all", "apply" } => activePlans = storeOp.before

\* the list of all plans read while one plan, of two changes, is stored
C17_Witness ==
    /\ storeOp.op = "all"
    /\ Len(storeOp.result) = 1
    /\ \E id \in PlanIds :
          /\ latest[id] # NullPlan
          /\ Len(latest[id].changes) = 2
          /\ activePlans[1].key = id

(***************************************************************************)
(* Properties of the apply loop of executeTransaction.                     *)
(***************************************************************************)
\* a create or update by the diff method that carries no literal content,
\* as the change stands at apply time
DiffWithoutContent(change) ==
    /\ change.op \in { "create", "update" }
    /\ change.applyMethod = "diff"
    /\ ~Truthy(change.content)

\* the error of applyDiff
DiffUnsupported(e) ==
    /\ e.msg = "Failed to apply change"
    /\ e.cause.msg = "Diff application not yet implemented"

\* C18: diff is never a silent success. Every create or update change by
\* the diff method that is attempted in the apply loop without literal
\* content is recorded as a failed apply with the diff-unsupported error,
\* and is not listed among the applied files.
C18_DiffNeverSilent ==
    \A i \in 1..Len(ApplyRecords) :
       DiffWithoutContent(changes[i]) =>
          /\ ~ApplyRecords[i].success
          /\ \E k \in 1..Len(errors) :
                errors[k].file = changes[i].file /\ DiffUnsupported(errors[k])

ProgressEvents ==
    SelectSeq(progressLog, LAMBDA e : e.kind = "apply.progress")

Attempts == SelectSeq(progressLog, LAMBDA e : e.kind = "applyFileChange")

RatioLeq(a, b) == a.num * b.den <= b.num * a.den

Below100(a) == a.num < 100 * a.den

CompletedEmitted ==
    \E k \in 1..Len(progressLog) : progressLog[k].completed

\* C19: apply-loop ordering. The changes are attempted in list order; the
\* attempt of the change at index i of n is preceded by an apply.progress
\* event with progress i/n*100 for that change's file; the progress values
\* do not decrease and stay below 100 until the final event {progress: 100,
\* completed: true}, which comes after the last change; without dryRun no
\* change is attempted after the first failing one and no completed event
\* is emitted then.
C19_ApplyLoopOrdering ==
    /\ Len(Attempts) = Len(ApplyRecords)
    /\ \A k \in 1..Len(Attempts) :
          /\ progressLog[2 * k - 1] =
                ProgressEvent(Ratio((k - 1) * 100, Len(changes)),
                              changes[k].file)
          /\ progressLog[2 * k] = Attempt(changes[k].file)
          /\ ApplyRecords[k].file = changes[k].file
    /\ \A j, k \in 1..Len(ProgressEvents) :
          j <= k => RatioLeq(ProgressEvents[j].progress,
                             ProgressEvents[k].progress)
    /\ \A k \in 1..Len(ProgressEvents) :
          ~ProgressEvents[k].completed => Below100(ProgressEvents[k].progress)
    /\ CompletedEmitted =>
          /\ progressLog[Len(progressLog)] = CompletedEvent
          /\ Len(progressLog) = 2 * Len(changes) + 1
          /\ Len(Attempts) = Len(changes)
    /\ (Done /\ outcome = "returned") => CompletedEmitted
    /\ (~options.dryRun /\ ApplyFailed) =>
          /\ ~ApplyRecords[Len(ApplyRecords)].success
          /\ \A k \in 1..(Len(ApplyRecords) - 1) : ApplyRecords[k].success
          /\ ~CompletedEmitted

\* a transaction of two changes without dryRun whose second change failed,
\* after the two progress events 0 and 50
C19_Witness ==
    /\ Done
    /\ ~options.dryRun
    /\ Len(changes) = 2
    /\ Len(ApplyRecords) = 2
    /\ ~ApplyRecords[2].success
    /\ ProgressEvents[2].progress = Ratio(100, 2)

\* C20: failure reporting. Whenever a change fails during apply without
\* dryRun, the journal holds an unsuccessful apply record for that file and
\* the error executeTransaction raises wraps the error of that file: it
\* names the failing file and its cause, with createBackups and without.
C20_FailureReporting ==
    (Done /\ ~options.dryRun /\ Len(errors) > 0) =>
       /\ ApplyRecords[Len(ApplyRecords)] =
             JournalOp("apply", errors[Len(errors)].file, FALSE)
       /\ outcome = "thrown"
       /\ thrown.causes = <<errors[Len(errors)]>>

\* C21: completion implies full success. In every mode the journal is
\* marked completed and the completed event is emitted only if every change
\* was applied without error; a completed journal holds no unsuccessful
\* apply record.
C21_CompletionImpliesSuccess ==
    (journal.status = "completed" \/ CompletedEmitted) =>
       /\ Len(errors) = 0
       /\ ~ApplyFailed
       /\ Len(appliedFiles) = Len(changes)

BackupRecords == SelectSeq(journal.operations, LAMBDA o : o.type = "backup")

BackedUpOps == { "update", "delete" }

\* C22: journal completeness. The journal holds one record per attempted
\* backup and one per attempted restoration of a file, each naming its
\* file, so that the files whose backup or rollback failed can be read
\* from the journal.
C22_JournalCompleteness ==
    /\ (options.createBackups /\ pc \notin { "idle", "backup" }) =>
          \A i \in 1..Len(changes0) :
             changes0[i].op \in BackedUpOps =>
                \E k \in 1..Len(BackupRecords) :
                   BackupRecords[k].file = changes0[i].file
    /\ RollbackPerformed =>
          \A i \in 1..Len(backups.files) :
             \E k \in 1..Len(journal.operations) :
                /\ journal.operations[k].type = "rollback"
                /\ journal.operations[k].file = backups.files[i].path

\* the fields of a change a later apply of the same plan reads
PlanFields(change) ==
    [op |-> change.op, applyMethod |-> change.applyMethod,
     diff |-> change.diff, content |-> change.content,
     newPath |-> change.newPath, insertAtLine |-> change.insertAtLine]

\* C24: plan immutability. executeTransaction leaves the changes it
\* received as they were: after any apply attempt every change has the
\* operation, apply method and payload it had when the call began.
C24_PlanImmutability ==
    /\ Len(changes) = Len(changes0)
    /\ \A i \in 1..Len(changes) :
          PlanFields(changes[i]) = PlanFields(changes0[i])

OnlyUpdatesAndDeletes ==
    \A i \in 1..Len(changes0) : changes0[i].op \in { "update", "delete" }

\* C27: rollback round trip for update and delete. For a transaction of
\* update and delete changes only, with createBackups and without dryRun,
\* if a change fails during apply then, once executeTransaction has
\* finished, every file named by a change exists or not as before the
\* transaction and has the content it had.
C27_RollbackRoundTrip ==
    (Done /\ options.createBackups /\ ~options.dryRun
        /\ OnlyUpdatesAndDeletes /\ ApplyFailed) =>
       \A i \in 1..Len(changes0) :
          fs[Location(changes0[i].file)] = fs0[Location(changes0[i].file)]

\* an update that was applied and then undone after a later change failed
C27_Witness ==
    /\ Done
    /\ options.createBackups
    /\ ~options.dryRun
    /\ OnlyUpdatesAndDeletes
    /\ ApplyFailed
    /\ RollbackPerformed
    /\ Len(appliedFiles) > 0
    /\ changes0[1].op = "update"
    /\ fs0[Location(changes0[1].file)] = File(Old)

\* C28: result shape without dryRun. executeTransaction with dryRun false
\* either throws or returns success true, no errors and the files of all
\* changes in list order as appliedFiles; no file of a failed change is
\* returned as applied.
C28_ResultShape ==
    (Done /\ ~options.dryRun) =>
       \/ outcome = "thrown"
       \/ /\ outcome = "returned"
          /\ result.success
          /\ result.errors = <<>>
          /\ result.appliedFiles = [i \in 1..Len(changes) |-> changes[i].file]
          /\ ~ApplyFailed

\* two changes applied without dryRun and the result returned
C28_Witness ==
    /\ Done
    /\ ~options.dryRun
    /\ outcome = "returned"
    /\ Len(changes) = 2
    /\ Len(result.appliedFiles) = 2

(***************************************************************************)
(* insertAtLine on its own: one call on a file of the workspace, for every *)
(* small file and every line number around its lines.                      *)
(***************************************************************************)
MaxFileLen == 3

FileChars == { "a", "b", Newline }

FileTexts == UNION { [1..n -> FileChars] : n \in 0..MaxFileLen }

\* the line numbers tried: from below 1 to beyond the end of every file
LineNumbers == (0 - 2)..(MaxFileLen + 3)

InsertedTexts == { <<"c">>, <<"c", "d">> }

\* the workspace that holds the file
FsWith(text) ==
    [l \in Locations |-> IF l = Location(FileA) THEN File(text) ELSE NoFile]

InsertInit ==
    /\ insPc = "call"
    /\ insFile \in FileTexts
    /\ insLine \in LineNumbers
    /\ insText \in InsertedTexts
    /\ insOut = <<>>

\* TransactionService.insertAtLine(filePath, lineNumber, content)
InsertAtLine ==
    /\ insPc = "call"
    /\ insPc' = "done"
    /\ insOut' = insertAtLine(FsWith(insFile), FileA, insLine,
                              insText).fs[Location(FileA)].content
    /\ UNCHANGED <<insFile, insLine, insText, notInsert>>

InsertNext == InsertAtLine

InitInsert == InsertInit /\ IdleExcept("insert")

SpecInsert == InitInsert /\ [][InsertNext]_vars

(***************************************************************************)
(* Properties of insertAtLine.                                             *)
(***************************************************************************)
OriginalLines == Split(insFile, Newline)

ResultLines == Split(insOut, Newline)

\* the result is the original lines with the text as a new line at position p
InsertedAt(p) ==
    /\ Len(ResultLines) = Len(OriginalLines) + 1
    /\ ResultLines[p] = insText
    /\ \A k \in 1..(p - 1) : ResultLines[k] = OriginalLines[k]
    /\ \A k \in p..Len(OriginalLines) : ResultLines[k + 1] = OriginalLines[k]

\* C23: insertAtLine. For a file of L lines and a line number n with
\* 1 <= n <= L+1 the result has L+1 lines, its line n is the content, the
\* lines before are the original lines 1..n-1 and the lines after are the
\* original lines n..L; for every other n no original line is removed,
\* altered or reordered and the content is inserted at the end (n > L+1)
\* or, for n <= 0, before the first line or at the end.
C23_InsertAtLine ==
    insPc = "done" =>
       IF 1 <= insLine /\ insLine <= Len(OriginalLines) + 1
          THEN InsertedAt(insLine)
       ELSE IF insLine > Len(OriginalLines) + 1
          THEN InsertedAt(Len(OriginalLines) + 1)
       ELSE InsertedAt(1) \/ InsertedAt(Len(OriginalLines) + 1)

(***************************************************************************)
(* The build manager without cancelBuild, with timers that fire and child  *)
(* processes that close or report an error.                                *)
(***************************************************************************)
\* the events of the child process p
ProcEvent(p) == p \in 1..Len(procs) /\ (ProcClose(p) \/ ProcError(p))

QueueNext == TriggerBuild \/ DebounceFire \/ RetryFire \/ ProcStep

SpecQueue ==
    /\ InitBuild
    /\ [][QueueNext]_vars
    /\ WF_vars(DebounceFire)
    /\ WF_vars(RetryFire)
    /\ \A p \in BuildIds : WF_vars(ProcEvent(p))

Building == { b \in BuildIds : buildHistory[b] = "building" }

Terminal == { "success", "failed" }

\* every build that was triggered is started and reaches a terminal status
EveryBuildEnds ==
    \A b \in BuildIds :
       (triggered >= b) ~> (buildHistory[b] \in Terminal)

\* builds are started in the order of their triggerBuild calls
StartedInOrder ==
    \A p, q \in 1..Len(procs) : p < q => procs[p].build < procs[q].build

\* no build is started while another one is in flight
OneInFlight == Cardinality(Building) <= 1

\* C25: build queue progress. With timers that fire and child processes
\* that close or report an error, every build id triggerBuild returned is
\* started and reaches the status success or failed; builds are started in
\* the order of their requests, and a build requested while another is in
\* flight is started only after that one has finished.
C25_BuildQueueProgress ==
    /\ EveryBuildEnds
    /\ []StartedInOrder
    /\ []OneInFlight

\* C26: build cancellation. A call cancelBuild(buildId) that returns true
\* terminates the process of the build with that id, and of no other
\* build, and marks that build failed.
C26_BuildCancellation ==
    [][\A buildId \in BuildIds :
          CancelBuild(buildId) =>
             /\ procs[currentBuild].build = buildId
             /\ buildHistory'[buildId] = "failed"]_vars

(***************************************************************************)
(* From generation to application: POST /plan validates and stores the     *)
(* plan the AI service generated, POST /plan/:planId/apply hands the       *)
(* stored plan's changes to executeTransaction.                            *)
(***************************************************************************)
NotStored == [stored |-> FALSE, warnings |-> <<>>]

NotHanded == [called |-> FALSE, changes |-> <<>>]

GateInit ==
    /\ gatePc = "generated"
    /\ gatePlan \in { [steps |-> StepsOf(g), changes |-> chs] :
                        g \in StepGraphs(MaxPlanSteps, MaxPlanEdges),
                        chs \in PlanChangeLists }
    /\ gateFs \in Workspaces
    /\ gateValidation = [valid |-> FALSE, errors |-> <<>>]
    /\ gateStored = NotStored
    /\ gateHanded = NotHanded

\* router.post('/plan') after generatePlan: validatePlan, the errors of an
\* invalid plan pushed to its warnings, storePlan
PostPlan ==
    /\ gatePc = "generated"
    /\ \E validation \in { validatePlan(gateFs, gatePlan) } :
          /\ gateValidation' = validation
          /\ gateStored' = [stored |-> TRUE,
                            warnings |-> IF ~validation.valid
                                            THEN validation.errors ELSE <<>>]
    /\ gatePc' = "stored"
    /\ UNCHANGED <<gatePlan, gateFs, gateHanded, notGate>>

\* router.post('/plan/:planId/apply') for the stored plan, without
\* selectedFiles: getPlan, then executeTransaction with the plan's changes
ApplyStoredPlan ==
    /\ gatePc = "stored"
    /\ gateHanded' = IF gateStored.stored
                        THEN [called |-> TRUE, changes |-> gatePlan.changes]
                        ELSE NotHanded
    /\ gatePc' = "applied"
    /\ UNCHANGED <<gatePlan, gateFs, gateValidation, gateStored, notGate>>

GateNext == PostPlan \/ ApplyStoredPlan

InitGate == GateInit /\ IdleExcept("gate")

SpecGate == InitGate /\ [][GateNext]_vars

\* C30: validation gates application. The changes of a plan are handed to
\* executeTransaction by the apply route only if validatePlan returned
\* valid for the plan (stated for the plans that have changes to apply).
C30_ValidationGatesApplication ==
    (gateHanded.called /\ Len(gateHanded.changes) > 0) => gateValidation.valid

(***************************************************************************)
(* Two POST /files/save requests on the same existing file, src/a, whose   *)
(* handlers run concurrently: a handler gives way at its awaits, between   *)
(* the check for concurrent modifications and the write.                   *)
(***************************************************************************)
Savers == { 1, 2 }

SavedTexts == { Old, New, <<"x">>, <<"y">> }

\* the requests: a content and the fingerprint of some content
SaveRequests ==
    [content : SavedTexts, expectedEtag : { Etag(c) : c \in SavedTexts }]

RaceInit ==
    /\ racePc = [r \in Savers |-> "check"]
    /\ raceFile \in { Old, New }
    /\ raceFile0 = raceFile
    /\ raceRequests \in [Savers -> SaveRequests]
    /\ raceReply = [r \in Savers |-> Response(0, "")]
    /\ raceSystem \in ModuleSystems

\* the handler up to the await of writeFile: exists, readFile and the
\* comparison of the fingerprints (every request of the model has an
\* expectedEtag, and the file exists)
SaveCheck(r) ==
    /\ racePc[r] = "check"
    /\ IF ~requireEtag(raceSystem)
          THEN /\ raceReply' = [raceReply EXCEPT ![r] =
                                   Response(500, "FILE_SAVE_FAILED")]
               /\ racePc' = [racePc EXCEPT ![r] = "done"]
       ELSE IF Etag(raceFile) # raceRequests[r].expectedEtag
          THEN /\ raceReply' = [raceReply EXCEPT ![r] =
                                   Response(409, "CONCURRENT_MODIFICATION")]
               /\ racePc' = [racePc EXCEPT ![r] = "done"]
       ELSE /\ racePc' = [racePc EXCEPT ![r] = "write"]
            /\ UNCHANGED raceReply
    /\ UNCHANGED <<raceFile, raceFile0, raceRequests, raceSystem, notRace>>

\* the rest of the handler: writeFile, getFileMetadata and the answer
SaveWrite(r) ==
    /\ racePc[r] = "write"
    /\ raceFile' = raceRequests[r].content
    /\ raceReply' = [raceReply EXCEPT ![r] = Response(200, "OK")]
    /\ racePc' = [racePc EXCEPT ![r] = "done"]
    /\ UNCHANGED <<raceFile0, raceRequests, raceSystem, notRace>>

SaveCheckStep == \E r \in Savers : SaveCheck(r)

SaveWriteStep == \E r \in Savers : SaveWrite(r)

RaceNext == SaveCheckStep \/ SaveWriteStep

InitRace == RaceInit /\ IdleExcept("race")

SpecRace == InitRace /\ [][RaceNext]_vars

\* both requests carry the fingerprint of the file's content and contents
\* that differ from it and from each other
BothCurrent ==
    /\ \A r \in Savers : raceRequests[r].expectedEtag = Etag(raceFile0)
    /\ \A r \in Savers : raceRequests[r].content # raceFile0
    /\ raceRequests[1].content # raceRequests[2].content

\* C29: no lost update on save. Of two concurrent save requests on the
\* same file that both carry the etag of its current content and different
\* new contents, at most one is written, and the other is answered 409
\* CONCURRENT_MODIFICATION, under every interleaving of their steps.
C29_NoLostUpdate ==
    (BothCurrent /\ \A r \in Savers : racePc[r] = "done") =>
       \A r, o \in Savers :
          (r # o /\ raceReply[r].status = 200) =>
             raceReply[o] = Response(409, "CONCURRENT_MODIFICATION")

====
